---- MODULE Spec2Model ----
(***************************************************************************)
(* Model of the SuperTravelAgent orchestration core:                       *)
(*   - AgentBase._merge_messages        (transcript merge by message_id)   *)
(*   - AgentController.run_stream       (streaming workflow state machine) *)
(* Strings are modelled as sequences of tokens (each token a TLA+ string), *)
(* so that Python's  a + b  is  a \o b  and  ''  is  << >>.                *)
(***************************************************************************)
EXTENDS Naturals, Integers, Sequences, FiniteSets, TLC

(***************************************************************************)
(* Bounds of the model                                                     *)
(***************************************************************************)
MaxCallerIds == 2   \* message ids a caller may put on its own messages
MaxStageIds  == 2   \* ids already generated by stages (merge inputs)
MaxT         == 2   \* length of a transcript handed to merge
MaxF         == 2   \* length of a fragment list handed to merge

(***************************************************************************)
(* Messages (Python dicts).  A key the dict does not have is modelled by   *)
(* NoId (message_id) or NoKey (content / show_content).                    *)
(***************************************************************************)
NoId  == 0
NoKey == <<"<key absent>">>

CallerIds == 1..MaxCallerIds
FirstUuid == MaxCallerIds + 1
StageIds  == FirstUuid..(FirstUuid + MaxStageIds - 1)

Msg(id, role, type, content, show, tcid) ==
    [message_id |-> id, role |-> role, type |-> type,
     content |-> content, show_content |-> show,
     tool_calls |-> "none", tool_call_id |-> tcid]

\* dict.get(key, '') on an optional text field
Get(field) == IF field = NoKey THEN << >> ELSE field

Ids(msgs) == [i \in 1..Len(msgs) |-> msgs[i].message_id]

(***************************************************************************)
(* AgentBase._merge_messages                                               *)
(***************************************************************************)
\* message_map[msg_id]: the map is overwritten on every insertion, so an id
\* resolves to the last record of the list that carries it (0: not in map)
MapIndex(msgs, id) ==
    LET hits == {i \in 1..Len(msgs) : msgs[i].message_id = id}
    IN  IF hits = {} THEN 0 ELSE CHOOSE i \in hits : \A j \in hits : j <= i

\* a dict without 'message_id' gets a fresh uuid4
EnsureId(msg, uuid) ==
    IF msg.message_id = NoId THEN [msg EXCEPT !.message_id = uuid] ELSE msg

NextUuid(msg, uuid) == IF msg.message_id = NoId THEN uuid + 1 ELSE uuid

\* first loop: copy every existing message, giving ids to those without one
RECURSIVE CopyExisting(_, _)
CopyExisting(msgs, uuid) ==
    IF msgs = << >> THEN [msgs |-> << >>, uuid |-> uuid]
    ELSE LET rest == CopyExisting(Tail(msgs), NextUuid(Head(msgs), uuid))
         IN  [msgs |-> <<EnsureId(Head(msgs), uuid)>> \o rest.msgs,
              uuid |-> rest.uuid]

\* variants of the update used to test the merge properties
ExtendFragmentFirst(existing, frag) ==
    [existing EXCEPT
       !.content      = IF @ # NoKey THEN Get(frag.content) \o @ ELSE @,
       !.show_content = IF @ # NoKey THEN Get(frag.show_content) \o @ ELSE @]

ExtendReplacing(existing, frag) ==
    [existing EXCEPT
       !.content      = IF @ # NoKey THEN Get(frag.content) ELSE @,
       !.show_content = IF @ # NoKey THEN Get(frag.show_content) ELSE @]

ExtendUpdatingAll(existing, frag) ==
    [frag EXCEPT
       !.content      = IF existing.content # NoKey
                        THEN existing.content \o Get(frag.content) ELSE existing.content,
       !.show_content = IF existing.show_content # NoKey
                        THEN existing.show_content \o Get(frag.show_content)
                        ELSE existing.show_content]

\* the update of an existing record: += on the keys the record has
Extend(existing, frag) ==
    [existing EXCEPT
       !.content      = IF @ # NoKey THEN @ \o Get(frag.content) ELSE @,
       !.show_content = IF @ # NoKey THEN @ \o Get(frag.show_content) ELSE @]

RemoveAt(s, i) == SubSeq(s, 1, i - 1) \o SubSeq(s, i + 1, Len(s))

\* variant of the loop body that re-appends an updated record at the end
MergeOneMovingToEnd(merged, frag) ==
    LET m == EnsureId(frag, merged.uuid)
        i == MapIndex(merged.msgs, m.message_id)
    IN  [msgs |-> IF i # 0
                  THEN Append(RemoveAt(merged.msgs, i), Extend(merged.msgs[i], m))
                  ELSE Append(merged.msgs, m),
         uuid |-> NextUuid(frag, merged.uuid)]

\* body of the second loop for one new message
MergeOne(merged, frag) ==
    LET m == EnsureId(frag, merged.uuid)
        i == MapIndex(merged.msgs, m.message_id)
    IN  [msgs |-> IF i # 0
                  THEN [merged.msgs EXCEPT ![i] = Extend(merged.msgs[i], m)]
                  ELSE Append(merged.msgs, m),
         uuid |-> NextUuid(frag, merged.uuid)]

RECURSIVE MergeLoop(_, _)
MergeLoop(merged, new_messages) ==
    IF new_messages = << >> THEN merged
    ELSE MergeLoop(MergeOne(merged, Head(new_messages)), Tail(new_messages))

\* _merge_messages(all_messages, new_messages) with the uuid4 source made
\* explicit: returns the merged list and the advanced uuid counter
MergeMessages(all_messages, new_messages, uuid) ==
    MergeLoop(CopyExisting(all_messages, uuid), new_messages)

(***************************************************************************)
(* Text helpers (str.strip, str.lower, str.split on a delimiter token)     *)
(***************************************************************************)
Whitespace == {" ", "\n"}

RECURSIVE LStrip(_)
LStrip(s) == IF s # << >> /\ Head(s) \in Whitespace THEN LStrip(Tail(s)) ELSE s

RECURSIVE RStrip(_)
RStrip(s) ==
    IF s # << >> /\ s[Len(s)] \in Whitespace THEN RStrip(SubSeq(s, 1, Len(s) - 1)) ELSE s

Strip(s) == RStrip(LStrip(s))

LowerChar(c) ==
    CASE c = "T" -> "t" [] c = "R" -> "r" [] c = "U" -> "u" [] c = "E" -> "e"
      [] c = "F" -> "f" [] c = "A" -> "a" [] c = "L" -> "l" [] c = "S" -> "s"
      [] c = "Y" -> "y" [] OTHER -> c

Lower(s) == [i \in 1..Len(s) |-> LowerChar(s[i])]

IndexOf(s, tok) ==
    LET hits == {i \in 1..Len(s) : s[i] = tok}
    IN  IF hits = {} THEN 0 ELSE CHOOSE i \in hits : \A j \in hits : i <= j

\* s.split(tok)[0]
SplitHead(s, tok) == IF IndexOf(s, tok) = 0 THEN s ELSE SubSeq(s, 1, IndexOf(s, tok) - 1)

\* s.split(tok)[1]; IndexError (ok = FALSE) when tok does not occur
SplitSecond(s, tok) ==
    IF IndexOf(s, tok) = 0
    THEN [ok |-> FALSE, text |-> << >>]
    ELSE [ok |-> TRUE,
          text |-> SplitHead(SubSeq(s, IndexOf(s, tok) + 1, Len(s)), tok)]

\* s.replace(tok, '')
Remove(s, tok) == SelectSeq(s, LAMBDA t : t # tok)

Digits == {"0", "1", "2", "3", "4", "5", "6", "7", "8", "9"}

\* int(text) succeeds
IsInt(text) == text # << >> /\ \A i \in 1..Len(text) : text[i] \in Digits

RECURSIVE DropZeros(_)
DropZeros(ds) == IF Len(ds) > 1 /\ Head(ds) = "0" THEN DropZeros(Tail(ds)) ELSE ds

(***************************************************************************)
(* ObservationAgent.convert_xlm_to_json and the JSON text exchanged        *)
(* between the Observe stage (json.dumps) and the controller (json.loads)  *)
(***************************************************************************)
ObsFields == <<"needs_more_input", "finish_percent", "is_completed",
               "analysis", "suggestions", "user_query">>

OpenTag(f)  == CASE f = "needs_more_input" -> "<needs_more_input>"
                 [] f = "finish_percent"   -> "<finish_percent>"
                 [] f = "is_completed"     -> "<is_completed>"
                 [] f = "analysis"         -> "<analysis>"
                 [] f = "suggestions"      -> "<suggestions>"
                 [] f = "user_query"       -> "<user_query>"

CloseTag(f) == CASE f = "needs_more_input" -> "</needs_more_input>"
                 [] f = "finish_percent"   -> "</finish_percent>"
                 [] f = "is_completed"     -> "</is_completed>"
                 [] f = "analysis"         -> "</analysis>"
                 [] f = "suggestions"      -> "</suggestions>"
                 [] f = "user_query"       -> "</user_query>"

\* xlm.split('<f>')[1].split('</f>')[0].strip()
FieldText(xlm, f) ==
    LET part == SplitSecond(xlm, OpenTag(f))
    IN  [ok |-> part.ok, text |-> Strip(SplitHead(part.text, CloseTag(f)))]

\* eval(suggestions), with the fallback [suggestions]: the items of the list
\* as json.dumps writes them between its brackets
EvalSuggestions(text) ==
    IF Len(text) >= 2 /\ text[1] = "[" /\ text[Len(text)] = "]"
    THEN SubSeq(text, 2, Len(text) - 1)
    ELSE <<"\"">> \o text \o <<"\"">>

\* variant that compares the field texts with 'true' without lowering them
convert_xlm_to_json_CaseSensitive(xlm) ==
    LET nmi == FieldText(xlm, "needs_more_input")
        pct == FieldText(xlm, "finish_percent")
        cmp == FieldText(xlm, "is_completed")
        ana == FieldText(xlm, "analysis")
        sug == FieldText(xlm, "suggestions")
        qry == FieldText(xlm, "user_query")
    IN  [ok |-> /\ nmi.ok /\ pct.ok /\ cmp.ok /\ ana.ok /\ sug.ok /\ qry.ok
                /\ IsInt(pct.text),
         needs_more_input |-> nmi.text = <<"t", "r", "u", "e">>,
         finish_percent   |-> DropZeros(pct.text),
         is_completed     |-> cmp.text = <<"t", "r", "u", "e">>,
         analysis         |-> ana.text,
         suggestions      |-> EvalSuggestions(sug.text),
         user_query       |-> qry.text]

\* the typed record, or ok = FALSE when the extraction raises
convert_xlm_to_json(xlm) ==
    LET nmi == FieldText(xlm, "needs_more_input")
        pct == FieldText(xlm, "finish_percent")
        cmp == FieldText(xlm, "is_completed")
        ana == FieldText(xlm, "analysis")
        sug == FieldText(xlm, "suggestions")
        qry == FieldText(xlm, "user_query")
    IN  [ok |-> /\ nmi.ok /\ pct.ok /\ cmp.ok /\ ana.ok /\ sug.ok /\ qry.ok
                /\ IsInt(pct.text),
         needs_more_input |-> Lower(nmi.text) = <<"t", "r", "u", "e">>,
         finish_percent   |-> DropZeros(pct.text),
         is_completed     |-> Lower(cmp.text) = <<"t", "r", "u", "e">>,
         analysis         |-> ana.text,
         suggestions      |-> EvalSuggestions(sug.text),
         user_query       |-> qry.text]

JBool(b) == IF b THEN "true" ELSE "false"

\* json.dumps(response_json): the keys in insertion order
JsonDumps(r) ==
    <<"{", "\"needs_more_input\": ", JBool(r.needs_more_input), ", ",
      "\"finish_percent\": ">> \o r.finish_percent \o
    <<", ", "\"is_completed\": ", JBool(r.is_completed), ", ",
      "\"analysis\": ", "\"">> \o r.analysis \o
    <<"\"", ", ", "\"suggestions\": ", "[">> \o r.suggestions \o
    <<"]", ", ", "\"user_query\": ", "\"">> \o r.user_query \o <<"\"", "}">>

JsonKeys == {"\"needs_more_input\": ", "\"finish_percent\": ", "\"is_completed\": ",
             "\"analysis\": ", "\"suggestions\": ", "\"user_query\": "}

RECURSIVE DigitRun(_)
DigitRun(s) == IF s # << >> /\ Head(s) \in Digits THEN 1 + DigitRun(Tail(s)) ELSE 0

\* one JSON value at the head of s: [ok, kind, val, rest]
JsonValue(s) ==
    IF s = << >> THEN [ok |-> FALSE, kind |-> "none", val |-> << >>, rest |-> << >>]
    ELSE IF Head(s) \in {"true", "false"}
    THEN [ok |-> TRUE, kind |-> "bool", val |-> <<Head(s)>>, rest |-> Tail(s)]
    ELSE IF Head(s) = "\""
    THEN LET j == IndexOf(Tail(s), "\"")
         IN  [ok |-> j # 0, kind |-> "string",
              val |-> SubSeq(Tail(s), 1, j - 1),
              rest |-> SubSeq(Tail(s), j + 1, Len(s) - 1)]
    ELSE IF Head(s) = "["
    THEN LET j == IndexOf(Tail(s), "]")
         IN  [ok |-> j # 0, kind |-> "list",
              val |-> SubSeq(Tail(s), 1, j - 1),
              rest |-> SubSeq(Tail(s), j + 1, Len(s) - 1)]
    ELSE IF Head(s) \in Digits
    THEN [ok |-> TRUE, kind |-> "number", val |-> SubSeq(s, 1, DigitRun(s)),
          rest |-> SubSeq(s, DigitRun(s) + 1, Len(s))]
    ELSE [ok |-> FALSE, kind |-> "none", val |-> << >>, rest |-> << >>]

\* what the controller reads of the parsed object, with the defaults of
\* obs_result.get(key, default)
JsonDefaults == [ok |-> TRUE, is_completed |-> FALSE, needs_more_input |-> FALSE,
                 user_query |-> << >>]

JsonStore(acc, key, v) ==
    IF key = "\"is_completed\": " /\ v.kind = "bool"
    THEN [acc EXCEPT !.is_completed = (v.val = <<"true">>)]
    ELSE IF key = "\"needs_more_input\": " /\ v.kind = "bool"
    THEN [acc EXCEPT !.needs_more_input = (v.val = <<"true">>)]
    ELSE IF key = "\"user_query\": " /\ v.kind = "string"
    THEN [acc EXCEPT !.user_query = v.val]
    ELSE acc

RECURSIVE JsonMembers(_, _)
JsonMembers(s, acc) ==
    IF s = << >> \/ Head(s) \notin JsonKeys THEN [acc EXCEPT !.ok = FALSE]
    ELSE LET v == JsonValue(Tail(s))
         IN  IF ~v.ok \/ v.rest = << >> THEN [acc EXCEPT !.ok = FALSE]
             ELSE IF v.rest = <<"}">> THEN JsonStore(acc, Head(s), v)
             ELSE IF Head(v.rest) = ", "
                  THEN JsonMembers(Tail(v.rest), JsonStore(acc, Head(s), v))
                  ELSE [acc EXCEPT !.ok = FALSE]

\* json.loads(text): ok = FALSE models json.JSONDecodeError
JsonLoads(s) ==
    IF s = << >> \/ Head(s) # "{" THEN [JsonDefaults EXCEPT !.ok = FALSE]
    ELSE IF Tail(s) = <<"}">> THEN JsonDefaults
    ELSE JsonMembers(Tail(s), JsonDefaults)

(***************************************************************************)
(* AgentController._trim_message_history                                   *)
(* len(json.dumps(messages)) is approximated by the length of the content  *)
(* and show_content texts; LongText stands for a text of LongLen chars.    *)
(***************************************************************************)
DEFAULT_MAX_LOOP_COUNT == 10
DEFAULT_MESSAGE_LIMIT == 10000
LongLen  == 6000
LongText == "<long text>"

TokenLen(tok) == IF tok = LongText THEN LongLen ELSE 1

RECURSIVE TextLen(_)
TextLen(text) == IF text = << >> THEN 0 ELSE TokenLen(Head(text)) + TextLen(Tail(text))

RECURSIVE SerializedLen(_)
SerializedLen(msgs) ==
    IF msgs = << >> THEN 0
    ELSE TextLen(Get(Head(msgs).content)) + TextLen(Get(Head(msgs).show_content))
         + SerializedLen(Tail(msgs))

\* the while loop; start_index counts from 0 as in the source
RECURSIVE TrimLoop(_, _)
TrimLoop(messages, start_index) ==
    IF SerializedLen(messages) > DEFAULT_MESSAGE_LIMIT /\ start_index < Len(messages)
    THEN IF \/ messages[start_index + 1].role = "user"
            \/ messages[start_index + 1].type = "final_answer"
         THEN TrimLoop(messages, start_index + 1)
         ELSE TrimLoop(RemoveAt(messages, start_index + 1), start_index)
    ELSE messages

_trim_message_history(messages) == TrimLoop(messages, 0)

\* _prepare_initial_messages: ids for the messages without one, then trim
_prepare_initial_messages(input, uuid) ==
    LET withIds == CopyExisting(input, uuid)
    IN  [msgs |-> _trim_message_history(withIds.msgs), uuid |-> withIds.uuid]

(***************************************************************************)
(* Keyword binding of a stage call.  The controller calls every stage with *)
(* run_stream(messages=, tool_manager=, context=, session_id=); a keyword  *)
(* the callee does not declare raises TypeError at the call.               *)
(***************************************************************************)
ControllerCallKwargs == {"messages", "tool_manager", "context", "session_id"}

ContextSignature       == {"messages", "tool_manager", "context", "session_id"}
SystemContextSignature == {"messages", "tool_manager", "session_id", "system_context"}

RunStreamParams(stage) ==
    CASE stage = "analysis"    -> ContextSignature
      [] stage = "decompose"   -> ContextSignature
      [] stage = "planning"    -> ContextSignature
      [] stage = "execution"   -> SystemContextSignature
      [] stage = "observation" -> ContextSignature
      [] stage = "summary"     -> SystemContextSignature
      [] stage = "direct"      -> ContextSignature

Binds(kwargs, params) == kwargs \subseteq params

TypeErrorText(stage) ==
    CASE stage = "execution" -> "ExecutorAgent.run_stream() got an unexpected keyword argument 'context'"
      [] stage = "summary"   -> "TaskSummaryAgent.run_stream() got an unexpected keyword argument 'context'"
      [] OTHER               -> "run_stream() got an unexpected keyword argument"

(***************************************************************************)
(* What the stages yield.  A script is the sequence of chunks (each chunk  *)
(* a list of message fragments) one run_stream call produces; u is the     *)
(* uuid4 of the streamed message, u + 1 the uuid4 of an error message.     *)
(***************************************************************************)
ErrorMsg(id, type, text) == Msg(id, "tool", type, <<text>>, <<text>>, "none")

AnalysisMsg(u, c, sh) == Msg(u, "assistant", "task_analysis_result", c, sh, "none")

AnalysisScripts(u) ==
    { <<<<AnalysisMsg(u, <<"Thinking: ">>, << >>)>>,
        <<AnalysisMsg(u, <<"a">>, <<"a">>)>>,
        <<AnalysisMsg(u, << >>, <<"\\n">>)>>>>,
      <<<<AnalysisMsg(u, <<"Thinking: ">>, << >>)>>,
        <<ErrorMsg(u + 1, "task_analysis_result", "analysis failed")>>>> }

DecomposeMsg(u, c, sh) == Msg(u, "assistant", "task_decomposition", c, sh, "none")

DecomposeScripts(u) ==
    { <<<<DecomposeMsg(u, <<"t">>, <<"\n- ">>)>>,
        <<DecomposeMsg(u, <<"t">>, <<"t">>)>>,
        <<DecomposeMsg(u, <<"tasks: ", "{\"tasks\": [..]}">>, << >>)>>>>,
      <<<<ErrorMsg(u + 1, "task_decomposition", "decomposition failed")>>>> }

PlanningMsg(u, c, sh) == Msg(u, "assistant", "planning_result", c, sh, "none")

PlanningScripts(u) ==
    { <<<<PlanningMsg(u, << >>, <<"\\n\\n">>)>>,
        <<PlanningMsg(u, << >>, <<"s">>)>>,
        <<PlanningMsg(u, <<"Planning: ", "{\"next_step\": {..}}">>, << >>)>>>>,
      <<<<PlanningMsg(u, << >>, <<"\\n\\n">>)>>,
        <<ErrorMsg(u + 1, "planning_result", "planning failed")>>>> }

ExecutionScripts(u) ==
    { <<<<Msg(u, "assistant", "do_subtask", <<"do: ", "s">>, << >>, "none")>>,
        <<Msg(u + 1, "assistant", "do_subtask_result", <<"r">>, <<"r">>, "none")>>>>,
      <<<<ErrorMsg(u, "do_subtask_result", "execution failed")>>>> }

SummaryScripts(u) ==
    { <<<<Msg(u, "assistant", "final_answer", <<"f">>, <<"f">>, "none")>>>>,
      <<<<ErrorMsg(u, "final_answer", "summary failed")>>>> }

\* DirectExecutorAgent.run_stream returns at once when messages is empty
DirectScripts(u, messages) ==
    IF messages = << >> THEN { << >> }
    ELSE { <<<<Msg(u, "assistant", "do_subtask_result", <<"r">>, <<"r">>, "none")>>,
             <<Msg(u, "assistant", "do_subtask_result", <<"r">>, <<"r">>, "none")>>>>,
           <<<<Msg(u, "assistant", "tool_call", << >>, <<"call">>, "none")>>,
             <<Msg(u + 1, "tool", "tool_call_result", <<"r">>, <<"r">>, "call_1")>>>>,
           <<<<ErrorMsg(u, "do_subtask_result", "execution failed")>>>> }

\* the texts the completion service may stream for the Observe stage
TrueTexts  == { <<"t", "r", "u", "e">>, <<"T", "r", "u", "e">>,
                <<"\n", "T", "R", "U", "E", "\n">> }
OtherTexts == { <<"f", "a", "l", "s", "e">>, <<"y", "e", "s">> }

ObsOutputs ==
    [needs_more_input : {<<"f", "a", "l", "s", "e">>, <<"T", "r", "u", "e">>},
     finish_percent   : {<<"5", "0">>, <<"h", "a", "l", "f">>},
     is_completed     : TrueTexts \cup OtherTexts,
     user_query       : {<< >>, <<"w", "h", "o", "?">>},
     has_is_completed : BOOLEAN]

Field(f, text) == <<OpenTag(f), "\n">> \o text \o <<"\n", CloseTag(f), "\n">>

\* all_content accumulated from the stream
ObsText(out) ==
    Field("needs_more_input", out.needs_more_input)
    \o Field("finish_percent", out.finish_percent)
    \o (IF out.has_is_completed THEN Field("is_completed", out.is_completed) ELSE << >>)
    \o Field("analysis", <<"o", "k">>)
    \o Field("suggestions", <<"[", "]">>)
    \o Field("user_query", out.user_query)

ObservationMsg(u, c, sh) == Msg(u, "assistant", "observation_result", c, sh, "none")

\* _finalize_observation_result
FinalObservation(u, xlm) ==
    LET response_json == convert_xlm_to_json(xlm)
    IN  IF response_json.ok
        THEN ObservationMsg(u, <<"Observation: ">> \o JsonDumps(response_json), <<"\\n">>)
        ELSE ErrorMsg(u + 1, "observation_result", "observation failed")

\* _execute_streaming_observation: the chunks of one Observe stage whose
\* stream accumulated the text xlm
ObservationScript(u, xlm) ==
    << <<ObservationMsg(u, << >>, <<"\\n\\n">>)>>,
       <<ObservationMsg(u, << >>, <<"o">>)>>,
       <<ObservationMsg(u, << >>, <<"k">>)>>,
       <<FinalObservation(u, xlm)>> >>

ObservationRuns(u) ==
    { [all_content |-> ObsText(out), script |-> ObservationScript(u, ObsText(out))]
        : out \in ObsOutputs }
    \cup { [all_content |-> << >>,
            script |-> <<<<ErrorMsg(u, "observation_result", "observation failed")>>>>] }

StageScripts(stage, u, messages) ==
    CASE stage = "analysis"    -> AnalysisScripts(u)
      [] stage = "decompose"   -> DecomposeScripts(u)
      [] stage = "planning"    -> PlanningScripts(u)
      [] stage = "execution"   -> ExecutionScripts(u)
      [] stage = "summary"     -> SummaryScripts(u)
      [] stage = "direct"      -> DirectScripts(u, messages)

\* what one call of a stage's run_stream can stream
StageRuns(stage, u, messages) ==
    IF stage = "observation"
    THEN ObservationRuns(u)
    ELSE { [all_content |-> << >>, script |-> sc]
             : sc \in StageScripts(stage, u, messages) }

(***************************************************************************)
(* Inputs of the merge specification                                       *)
(***************************************************************************)
\* a message as a caller sends it: no show_content, its own id or none
CallerMsg(id) == Msg(id, "user", "normal", <<"hi">>, NoKey, "none")
\* a record a stage produced earlier
StageMsg(id)  == Msg(id, "assistant", "planning_result", <<"c">>, <<"s">>, "none")
\* fragments as stages yield them (uuid4 ids never equal a caller's id)
ChunkFrag(id) == Msg(id, "assistant", "planning_result", << >>, <<"d">>, "none")
ToolFrag(id)  == Msg(id, "tool", "tool_call_result", <<"r">>, <<"r">>, "call_1")

StoredPool == {CallerMsg(i) : i \in CallerIds \cup {NoId}} \cup {StageMsg(i) : i \in StageIds}
FragPool   == {ChunkFrag(i) : i \in StageIds \cup {NoId}} \cup {ToolFrag(i) : i \in StageIds}

SeqsUpTo(S, n) == UNION {[1..k -> S] : k \in 0..n}

DistinctIds(msgs) ==
    \A i, j \in 1..Len(msgs) :
        (i # j /\ msgs[i].message_id # NoId) => msgs[i].message_id # msgs[j].message_id

Transcripts == {t \in SeqsUpTo(StoredPool, MaxT) : DistinctIds(t)}
FragLists   == SeqsUpTo(FragPool, MaxF)

MergeUuid0 == FirstUuid + MaxStageIds

VARIABLES
    T,              \* merge input: the stored transcript
    F,              \* merge input: the fragment list
    M,              \* _merge_messages(T, F)
    M2,             \* _merge_messages(M, F): the same fragments merged again
    mphase,         \* "input" | "merged" | "again" ("off" outside SpecMerge)
    pc,             \* position of the controller inside run_stream
    stage,          \* the stage being called or streamed
    cfg,            \* deep_thinking, summary, max_loop_count, deep_research
    input_messages, \* the caller's transcript
    all_messages,   \* the controller's running transcript
    yielded,        \* the chunks the caller has received, in order
    loop_count,     \* loop_count of _execute_main_loop
    invoked,        \* the stages the controller has called, in order
    completed,      \* the stages whose stream was exhausted, in order
    uuid,           \* source of uuid4 values
    script,         \* chunks the running stage has still to yield
    exc,            \* exception propagating to run_stream's except clause
    raised,         \* run_stream let an exception reach its caller
    obs_check,      \* outcome of the last _check_loop_completion
    all_content,    \* text streamed to the running Observe stage
    produced,       \* the chunks the called stages produce, in order
    prepared_messages, \* the transcript run_stream started from
    rpc,            \* position of the controller inside run (buffered form)
    rstage,         \* the stage run is calling
    run_messages,   \* all_messages of run
    new_messages,   \* new_messages of run
    run_invoked,    \* the stages run has called, in order
    run_exc,        \* exception propagating to the except clause of run
    run_result,     \* the dictionary run returned
    tools,          \* ToolManager.tools: registered name -> kind of spec
    execution_stats,\* ToolManager.execution_stats: the counters and error_types
    mcp_sessions,   \* ToolManager._mcp_sessions: session_id -> the connections kept for it
    close_calls,    \* the calls of session.close() made by cleanup_session, in order
    tool_call,      \* the last call of run_tool, its number, and what its capability did
    tool_result,    \* the envelope run_tool returned
    tool_raised,    \* run_tool let an exception reach its caller
    executed,       \* the capabilities whose code was entered, in order
    epc,            \* position of the Execute stage inside its generator
    tool_calls,     \* the requested tool calls _execute_tool_calls has still to visit
    requested,      \* the tool calls the model requested in this Execute step
    handled,        \* the requested calls the loop has visited, with their outcome
    tag_types,      \* the field vocabulary of the streaming stage and the fields it shows
    delta_stream,   \* the characters of the model's stream that have still to arrive
    streamed,       \* all_content of the streaming loop
    unknown_content,\* the characters the streaming loop is holding
    last_tag_type,  \* last_tag_type of the streaming loop
    tag_type,       \* the last result of _judge_delta_content_type
    shown,          \* the show_content the loop has yielded, in order
    mcp_calls,      \* the coroutines of _execute_sse_mcp_tool / _execute_stdio_mcp_tool
    wire,           \* per connection, what it was asked to do, in order
    untrimmed,      \* the list _trim_message_history was called with
    history,        \* its local  messages, deleted from in place
    trim_start_index, \* its local  start_index
    trim_pc, \* where _trim_message_history is
    view_messages, \* the messages a stage was called with
    task_description_messages, \* what _extract_task_description_messages returned
    completed_actions_messages, \* what _extract_completed_actions_messages returned
    extracted, \* the extractions the stage has made
    direct_pc, \* where DirectExecutorAgent.run_stream is
    direct_input, \* what run_stream was called with: messages given, tool_manager given
    direct_loop_count, \* loop_count of _execute_loop
    llm_calls, \* the calls of model.chat.completions.create, by purpose, in order
    all_new_response_chunks, \* the chunks collected in the current iteration of _execute_loop
    spc, \* position in ExecutorAgent._process_streaming_response
    stream_response, \* response: the deltas the completion service streams for one request
    consumed, \* number of deltas the for loop has taken from the response
    stream_tool_calls, \* tool_calls of _process_streaming_response: the entries in insertion order
    last_tool_call_id, \* last_tool_call_id of _process_streaming_response
    register_call \* the last call of register_tool: the specification given and the value returned

mergeVars == <<T, F, M, M2, mphase>>
runVars   == <<pc, stage, cfg, input_messages, all_messages, yielded, loop_count,
               invoked, completed, uuid, script, exc, raised, obs_check,
               all_content, produced, prepared_messages>>
bufferedVars == <<rpc, rstage, run_messages, new_messages, run_invoked, run_exc,
                  run_result>>
toolVars     == <<tools, execution_stats, mcp_sessions, tool_call, tool_result,
                  tool_raised, executed, close_calls>>
execVars     == <<epc, tool_calls, requested, handled>>
classifyVars == <<tag_types, delta_stream, streamed, unknown_content, last_tag_type,
                  tag_type, shown>>
mcpVars == <<mcp_calls, wire>>
trimVars == <<untrimmed, history, trim_start_index, trim_pc>>
viewVars == <<view_messages, task_description_messages, completed_actions_messages, extracted>>
directVars == <<direct_pc, direct_input, direct_loop_count, llm_calls, all_new_response_chunks>>
streamVars == <<spc, stream_response, consumed, stream_tool_calls, last_tool_call_id>>
registerVars == <<register_call>>
nonTrimVars  == <<mergeVars, runVars, bufferedVars, toolVars, execVars, classifyVars, mcpVars, viewVars, directVars, streamVars, registerVars>>
nonRunVars   == <<mergeVars, bufferedVars, toolVars, execVars, classifyVars, mcpVars, trimVars, viewVars, directVars, streamVars, registerVars>>
nonMergeVars == <<runVars, bufferedVars, toolVars, execVars, classifyVars, mcpVars, trimVars, viewVars, directVars, streamVars, registerVars>>
nonToolVars  == <<mergeVars, runVars, bufferedVars, execVars, classifyVars, mcpVars, trimVars, viewVars, directVars, streamVars, registerVars>>
nonBufferedVars == <<mergeVars, runVars, toolVars, execVars, classifyVars, mcpVars, trimVars, viewVars, directVars, streamVars, registerVars>>
nonClassifyVars == <<mergeVars, runVars, bufferedVars, toolVars, execVars, mcpVars, trimVars, viewVars, directVars, streamVars, registerVars>>
vars      == <<T, F, M, M2, mphase, pc, stage, cfg, input_messages, all_messages,
               yielded, loop_count, invoked, completed, uuid, script, exc, raised,
               obs_check, all_content, produced, prepared_messages, rpc, rstage,
               run_messages, new_messages, run_invoked, run_exc, run_result,
               tools, execution_stats, mcp_sessions, tool_call, tool_result,
               tool_raised, executed, close_calls, epc, tool_calls, requested, handled,
               tag_types, delta_stream, streamed, unknown_content, last_tag_type,
               tag_type, shown, mcp_calls, wire, untrimmed, history,
               trim_start_index, trim_pc,
               view_messages, task_description_messages, completed_actions_messages, extracted,
               direct_pc, direct_input, direct_loop_count, llm_calls, all_new_response_chunks,
               spc, stream_response, consumed, stream_tool_calls, last_tool_call_id,
               register_call>>

NoExc == [class |-> "none", text |-> ""]

NoCheck == [checked |-> FALSE, parsed |-> FALSE, is_completed |-> FALSE,
            needs_more_input |-> FALSE, should_break |-> FALSE]

RunIdle ==
    /\ pc = "idle" /\ stage = "none"
    /\ cfg = [deep_thinking |-> TRUE, summary |-> TRUE, max_loop_count |-> 0,
              deep_research |-> TRUE]
    /\ input_messages = << >> /\ all_messages = << >> /\ yielded = << >>
    /\ loop_count = 0 /\ invoked = << >> /\ completed = << >>
    /\ uuid = FirstUuid /\ script = << >> /\ exc = NoExc /\ raised = FALSE
    /\ obs_check = NoCheck /\ all_content = << >>
    /\ produced = << >> /\ prepared_messages = << >>

MergeIdle == T = << >> /\ F = << >> /\ M = << >> /\ M2 = << >> /\ mphase = "off"

NoResult == [all_messages |-> << >>, new_messages |-> << >>, final_output |-> "none"]

NoEnvelope == [keys |-> {}, error |-> FALSE, content_type |-> "absent", content |-> << >>,
               messages_type |-> "absent", error_type |-> "none", tool_name |-> "none"]

NoCall == [tool_name |-> "none", failure |-> "none", kind |-> "none",
           session_id |-> "none", number |-> 0]

NoStats == [total_executions |-> 0, successful_executions |-> 0, failed_executions |-> 0,
            error_types |-> [t \in {} |-> 0]]

NoTools == [n \in {} |-> "none"]

\* no session_id has an entry in _mcp_sessions
NoSessions == [k \in {} |-> << >>]

ToolIdle ==
    /\ close_calls = << >>
    /\ tools = NoTools /\ execution_stats = NoStats /\ mcp_sessions = NoSessions
    /\ tool_call = NoCall /\ tool_result = NoEnvelope /\ tool_raised = FALSE
    /\ executed = << >>

NoTagTypes == [stage |-> "none", tags |-> {}, shows |-> {}]

RegisterIdle ==
    /\ register_call = [name |-> "none", kind |-> "none", returned |-> FALSE]

StreamIdle ==
    /\ spc = "idle"
    /\ stream_response = << >>
    /\ consumed = 0
    /\ stream_tool_calls = << >>
    /\ last_tool_call_id = "None"

DirectIdle ==
    /\ direct_pc = "idle"
    /\ direct_input = [messages |-> FALSE, tool_manager |-> FALSE]
    /\ direct_loop_count = 0
    /\ llm_calls = << >>
    /\ all_new_response_chunks = << >>

ViewIdle ==
    /\ view_messages = << >>
    /\ task_description_messages = << >>
    /\ completed_actions_messages = << >>
    /\ extracted = {}

TrimIdle ==
    /\ untrimmed = << >> /\ history = << >>
    /\ trim_start_index = 0 /\ trim_pc = "idle"

McpIdle == mcp_calls = << >> /\ wire = << >>

ClassifyIdle ==
    /\ tag_types = NoTagTypes /\ delta_stream = << >> /\ streamed = << >>
    /\ unknown_content = << >> /\ last_tag_type = "None" /\ tag_type = "None"
    /\ shown = << >>

ExecIdle ==
    epc = "idle" /\ tool_calls = << >> /\ requested = << >> /\ handled = << >>

BufferedIdle ==
    /\ rpc = "idle" /\ rstage = "none"
    /\ run_messages = << >> /\ new_messages = << >> /\ run_invoked = << >>
    /\ run_exc = NoExc /\ run_result = NoResult

(***************************************************************************)
(* SpecMerge: _merge_messages applied to bounded inputs                    *)
(***************************************************************************)
InitMerge ==
    /\ ToolIdle
    /\ ExecIdle
    /\ ClassifyIdle /\ McpIdle /\ TrimIdle /\ ViewIdle /\ DirectIdle /\ StreamIdle /\ RegisterIdle
    /\ BufferedIdle
    /\ T \in Transcripts
    /\ F \in FragLists
    /\ M = << >>
    /\ M2 = << >>
    /\ mphase = "input"
    /\ RunIdle

DoMerge ==
    /\ mphase = "input"
    /\ M' = MergeMessages(T, F, MergeUuid0).msgs
    /\ mphase' = "merged"
    /\ UNCHANGED <<T, F, M2>>
    /\ UNCHANGED nonMergeVars

DoMergeAgain ==
    /\ mphase = "merged"
    /\ M2' = MergeMessages(M, F, MergeUuid0 + Len(T) + Len(F)).msgs
    /\ mphase' = "again"
    /\ UNCHANGED <<T, F, M>>
    /\ UNCHANGED nonMergeVars

NextMerge == DoMerge \/ DoMergeAgain

SpecMerge == InitMerge /\ [][NextMerge]_vars

(***************************************************************************)
(* Spec: AgentController.run_stream                                        *)
(***************************************************************************)
MaxInput     == 2   \* length of the caller's transcript
MaxLoopCount == 2   \* largest max_loop_count a caller passes

AnswerMsg(id) == Msg(id, "assistant", "final_answer", <<"old answer">>, <<"old answer">>, "none")
LongToolMsg   == Msg(NoId, "tool", "tool_call_result", <<LongText>>, <<LongText>>, "call_0")

CallerPool == {CallerMsg(i) : i \in CallerIds \cup {NoId}}
              \cup {AnswerMsg(1), LongToolMsg}

Configs == [deep_thinking : BOOLEAN, summary : BOOLEAN,
            max_loop_count : 0..MaxLoopCount, deep_research : BOOLEAN]

Init ==
    /\ ToolIdle
    /\ ExecIdle
    /\ ClassifyIdle /\ McpIdle /\ TrimIdle /\ ViewIdle /\ DirectIdle /\ StreamIdle /\ RegisterIdle
    /\ BufferedIdle
    /\ MergeIdle
    /\ pc = "start" /\ stage = "none"
    /\ cfg \in Configs
    /\ input_messages \in SeqsUpTo(CallerPool, MaxInput)
    /\ all_messages = << >> /\ yielded = << >>
    /\ loop_count = 0 /\ invoked = << >> /\ completed = << >>
    /\ uuid = FirstUuid /\ script = << >> /\ exc = NoExc /\ raised = FALSE
    /\ obs_check = NoCheck /\ all_content = << >>
    /\ produced = << >> /\ prepared_messages = << >>

\* variant of run_stream that starts the full workflow whatever the mode
FirstStage_FullAlways(c) ==
    IF c.deep_thinking THEN "analysis" ELSE "decompose"

\* if deep_research: _execute_full_workflow (whose first stage is Analyze
\* when deep_thinking, else Decompose) else: _execute_direct_workflow
FirstStage(c) ==
    IF c.deep_research
    THEN (IF c.deep_thinking THEN "analysis" ELSE "decompose")
    ELSE "direct"

\* run_stream up to the choice of the workflow
PrepareRun ==
    /\ pc = "start"
    /\ LET prepared == _prepare_initial_messages(input_messages, uuid)
       IN  /\ all_messages' = prepared.msgs
           /\ prepared_messages' = prepared.msgs
           /\ uuid' = prepared.uuid
    /\ pc' = "call"
    /\ stage' = FirstStage(cfg)
    /\ UNCHANGED <<cfg, input_messages, yielded, loop_count, invoked, completed,
                   script, exc, raised, obs_check, all_content>>
    /\ UNCHANGED produced
    /\ UNCHANGED nonRunVars

\* variant of a stage that works on the list it was handed: the prompt
\* message it appends for the model lands in the controller's transcript
StageLeaves_WithoutCopy(s, messages, u) ==
    Append(messages, Msg(u, "assistant", "do_subtask", <<"prompt">>, << >>, "none"))

\* the caller's list after the stage has prepared its own messages: a stage
\* builds new lists (deepcopy(messages), filtered and cleaned copies) and
\* appends its prompt to those
StageLeaves(s, messages, u) == messages

\* the call  self.<stage>_agent.run_stream(messages=..., context=..., ...)
\* made by the phase method of stage s
Invoke(s) ==
    /\ invoked' = Append(invoked, s)
    /\ all_messages' = IF Binds(ControllerCallKwargs, RunStreamParams(s))
                       THEN StageLeaves(s, all_messages, uuid)
                       ELSE all_messages
    /\ IF Binds(ControllerCallKwargs, RunStreamParams(s))
       THEN /\ \E r \in StageRuns(s, uuid, all_messages) :
                   /\ script' = r.script
                   /\ produced' = produced \o r.script
                   /\ all_content' = IF s = "observation" THEN r.all_content
                                      ELSE all_content
            /\ uuid' = uuid + 2
            /\ pc' = "streaming"
            /\ exc' = exc
       ELSE /\ script' = << >>
            /\ produced' = produced
            /\ all_content' = all_content
            /\ uuid' = uuid
            /\ pc' = "except"
            /\ exc' = [class |-> "TypeError", text |-> TypeErrorText(s)]
    /\ UNCHANGED <<stage, cfg, input_messages, yielded, loop_count,
                   completed, raised, obs_check>>
    /\ UNCHANGED prepared_messages
    /\ UNCHANGED nonRunVars

TaskAnalysisPhase ==
    /\ pc = "call" /\ stage = "analysis"
    /\ Invoke("analysis")

TaskDecompositionPhase ==
    /\ pc = "call" /\ stage = "decompose"
    /\ Invoke("decompose")

PlanningPhase ==
    /\ pc = "call" /\ stage = "planning"
    /\ Invoke("planning")

ExecutionPhase ==
    /\ pc = "call" /\ stage = "execution"
    /\ Invoke("execution")

ObservationPhase ==
    /\ pc = "call" /\ stage = "observation"
    /\ Invoke("observation")

TaskSummaryPhase ==
    /\ pc = "call" /\ stage = "summary"
    /\ Invoke("summary")

DirectWorkflow ==
    /\ pc = "call" /\ stage = "direct"
    /\ Invoke("direct")

\* variant of the loop body that hands the caller the merged records
StreamStepYieldingMerged(messages, chunk, u) ==
    LET merged == MergeMessages(messages, chunk, u)
    IN  [msgs |-> merged.msgs, uuid |-> merged.uuid,
         out  |-> [k \in 1..Len(chunk) |->
                     merged.msgs[MapIndex(merged.msgs, chunk[k].message_id)]]]

\* the body of  for chunk in ...:  all_messages = merge(all_messages, chunk);
\* yield chunk
StreamStep(messages, chunk, u) ==
    LET merged == MergeMessages(messages, chunk, u)
    IN  [msgs |-> merged.msgs, uuid |-> merged.uuid, out |-> chunk]

\* one iteration of  for chunk in ...: merge; yield chunk
YieldChunk ==
    /\ pc = "streaming"
    /\ script # << >>
    /\ LET step == StreamStep(all_messages, Head(script), uuid)
       IN  /\ all_messages' = step.msgs
           /\ uuid' = step.uuid
           /\ yielded' = Append(yielded, step.out)
    /\ script' = Tail(script)
    /\ UNCHANGED <<pc, stage, cfg, input_messages, loop_count, invoked, completed,
                   exc, raised, obs_check, all_content, produced, prepared_messages>>
    /\ UNCHANGED nonRunVars

\* where _execute_full_workflow goes when the main loop has ended
AfterLoopPc    == IF cfg.summary THEN "call" ELSE "return"
AfterLoopStage == IF cfg.summary THEN "summary" ELSE "none"

\* the stream of the stage is exhausted: the phase method returns
PhaseReturn ==
    /\ pc = "streaming"
    /\ script = << >>
    /\ epc \in {"idle", "done"}
    /\ completed' = Append(completed, stage)
    /\ pc' = CASE stage \in {"analysis", "planning", "execution"} -> "call"
               [] stage = "decompose"   -> "loop"
               [] stage = "observation" -> "check"
               [] stage \in {"summary", "direct"} -> "return"
    /\ stage' = CASE stage = "analysis"  -> "decompose"
                  [] stage = "planning"  -> "execution"
                  [] stage = "execution" -> "observation"
                  [] OTHER               -> stage
    /\ UNCHANGED <<cfg, input_messages, all_messages, yielded, loop_count, invoked,
                   uuid, script, exc, raised, obs_check, all_content>>
    /\ UNCHANGED <<produced, prepared_messages>>
    /\ UNCHANGED nonRunVars

\* head of the while loop of _execute_main_loop
MainLoopHead ==
    /\ pc = "loop"
    /\ loop_count' = loop_count + 1
    /\ IF loop_count + 1 > cfg.max_loop_count
       THEN pc' = AfterLoopPc /\ stage' = AfterLoopStage
       ELSE pc' = "call" /\ stage' = "planning"
    /\ UNCHANGED <<cfg, input_messages, all_messages, yielded, invoked, completed,
                   uuid, script, exc, raised, obs_check, all_content>>
    /\ UNCHANGED <<produced, prepared_messages>>
    /\ UNCHANGED nonRunVars

\* variant that tests needs_more_input before is_completed
_check_loop_completion_InputFirst(messages, clarify_id) ==
    LET last       == IF messages = << >> THEN NoKey ELSE messages[Len(messages)].content
        obs_result == IF last = NoKey
                      THEN [JsonDefaults EXCEPT !.ok = FALSE]
                      ELSE JsonLoads(Remove(last, "Observation: "))
        clarify_msg == Msg(clarify_id, "assistant", "final_answer",
                           obs_result.user_query, obs_result.user_query \o <<"\n">>, "none")
    IN  IF ~obs_result.ok
        THEN [should_break |-> FALSE, parsed |-> FALSE, is_completed |-> FALSE,
              needs_more_input |-> FALSE, msgs |-> messages]
        ELSE IF obs_result.needs_more_input
        THEN [should_break |-> TRUE, parsed |-> TRUE,
              is_completed |-> obs_result.is_completed,
              needs_more_input |-> TRUE, msgs |-> Append(messages, clarify_msg)]
        ELSE IF obs_result.is_completed
        THEN [should_break |-> TRUE, parsed |-> TRUE, is_completed |-> TRUE,
              needs_more_input |-> FALSE, msgs |-> messages]
        ELSE [should_break |-> FALSE, parsed |-> TRUE, is_completed |-> FALSE,
              needs_more_input |-> FALSE, msgs |-> messages]

\* variant whose except clause ends the loop
_check_loop_completion_BreakOnFailure(messages, clarify_id) ==
    LET last       == IF messages = << >> THEN NoKey ELSE messages[Len(messages)].content
        obs_result == IF last = NoKey
                      THEN [JsonDefaults EXCEPT !.ok = FALSE]
                      ELSE JsonLoads(Remove(last, "Observation: "))
        clarify_msg == Msg(clarify_id, "assistant", "final_answer",
                           obs_result.user_query, obs_result.user_query \o <<"\n">>, "none")
    IN  IF ~obs_result.ok
        THEN [should_break |-> TRUE, parsed |-> FALSE, is_completed |-> FALSE,
              needs_more_input |-> FALSE, msgs |-> messages]
        ELSE IF obs_result.is_completed
        THEN [should_break |-> TRUE, parsed |-> TRUE, is_completed |-> TRUE,
              needs_more_input |-> obs_result.needs_more_input, msgs |-> messages]
        ELSE IF obs_result.needs_more_input
        THEN [should_break |-> TRUE, parsed |-> TRUE, is_completed |-> FALSE,
              needs_more_input |-> TRUE, msgs |-> Append(messages, clarify_msg)]
        ELSE [should_break |-> FALSE, parsed |-> TRUE, is_completed |-> FALSE,
              needs_more_input |-> FALSE, msgs |-> messages]

\* _check_loop_completion(all_messages): the decision, and the transcript
\* after the in-place append of the clarification message
_check_loop_completion(messages, clarify_id) ==
    LET last       == IF messages = << >> THEN NoKey ELSE messages[Len(messages)].content
        obs_result == IF last = NoKey
                      THEN [JsonDefaults EXCEPT !.ok = FALSE]
                      ELSE JsonLoads(Remove(last, "Observation: "))
        clarify_msg == Msg(clarify_id, "assistant", "final_answer",
                           obs_result.user_query, obs_result.user_query \o <<"\n">>, "none")
    IN  IF ~obs_result.ok
        THEN [should_break |-> FALSE, parsed |-> FALSE, is_completed |-> FALSE,
              needs_more_input |-> FALSE, msgs |-> messages]
        ELSE IF obs_result.is_completed
        THEN [should_break |-> TRUE, parsed |-> TRUE, is_completed |-> TRUE,
              needs_more_input |-> obs_result.needs_more_input, msgs |-> messages]
        ELSE IF obs_result.needs_more_input
        THEN [should_break |-> TRUE, parsed |-> TRUE, is_completed |-> FALSE,
              needs_more_input |-> TRUE, msgs |-> Append(messages, clarify_msg)]
        ELSE [should_break |-> FALSE, parsed |-> TRUE, is_completed |-> FALSE,
              needs_more_input |-> FALSE, msgs |-> messages]

\* end of _execute_observation_phase and  if should_break: break
CheckLoopCompletion ==
    /\ pc = "check"
    /\ LET r == _check_loop_completion(all_messages, uuid)
       IN  /\ all_messages' = r.msgs
           /\ uuid' = IF Len(r.msgs) > Len(all_messages) THEN uuid + 1 ELSE uuid
           /\ obs_check' = [checked |-> TRUE, parsed |-> r.parsed,
                            is_completed |-> r.is_completed,
                            needs_more_input |-> r.needs_more_input,
                            should_break |-> r.should_break]
           /\ IF r.should_break
              THEN pc' = AfterLoopPc /\ stage' = AfterLoopStage
              ELSE pc' = "loop" /\ stage' = "none"
    /\ UNCHANGED <<cfg, input_messages, yielded, loop_count, invoked, completed,
                   script, exc, raised, all_content>>
    /\ UNCHANGED <<produced, prepared_messages>>
    /\ UNCHANGED nonRunVars

\* the classes  except Exception  catches
ExceptionSubclasses == {"TypeError", "KeyError", "IndexError", "ValueError",
                        "JSONDecodeError", "Exception"}

\* variant of the except clause that lets TypeError through
CatchesAllButTypeError(class) == class \in ExceptionSubclasses \ {"TypeError"}

Catches(class) == class \in ExceptionSubclasses

WorkflowErrorMsg(id, error) ==
    Msg(id, "assistant", "final_answer", <<"workflow failed: ", error.text>>,
        <<"workflow failed: ", error.text>>, "none")

\* _handle_workflow_error yields the one error chunk
_handle_workflow_error(error, id) == << <<WorkflowErrorMsg(id, error)>> >>

\* the except clause of run_stream
HandleWorkflowError ==
    /\ pc = "except"
    /\ IF Catches(exc.class)
       THEN /\ yielded' = yielded \o _handle_workflow_error(exc, uuid)
            /\ uuid' = uuid + 1
            /\ raised' = raised
       ELSE /\ yielded' = yielded
            /\ uuid' = uuid
            /\ raised' = TRUE
    /\ pc' = "done"
    /\ UNCHANGED <<stage, cfg, input_messages, all_messages, loop_count, invoked,
                   completed, script, exc, obs_check, all_content>>
    /\ UNCHANGED <<produced, prepared_messages>>
    /\ UNCHANGED nonRunVars

\* the workflow generator is exhausted: run_stream ends normally
RunStreamReturn ==
    /\ pc = "return"
    /\ pc' = "done"
    /\ UNCHANGED <<stage, cfg, input_messages, all_messages, yielded, loop_count,
                   invoked, completed, uuid, script, exc, raised, obs_check, all_content>>
    /\ UNCHANGED <<produced, prepared_messages>>
    /\ UNCHANGED nonRunVars

Next ==
    \/ PrepareRun
    \/ TaskAnalysisPhase
    \/ TaskDecompositionPhase
    \/ MainLoopHead
    \/ PlanningPhase
    \/ ExecutionPhase
    \/ TaskSummaryPhase
    \/ DirectWorkflow
    \/ YieldChunk
    \/ PhaseReturn
    \/ HandleWorkflowError
    \/ RunStreamReturn

Spec == Init /\ [][Next]_vars

(***************************************************************************)
(* SpecTrim: AgentController._trim_message_history, one iteration of its   *)
(* while loop per step, on the list _prepare_initial_messages hands it     *)
(* (every message has its message_id by then; here the id of a message is  *)
(* its position in that list).                                             *)
(***************************************************************************)
MaxHistory == 3   \* length of the list handed to _trim_message_history

JustLong == <<LongText>>

\* the messages a caller's history is made of, by size and kind
TrimPool(id) ==
    { Msg(id, "user", "normal", <<"hi">>, NoKey, "none"),
      Msg(id, "user", "normal", JustLong, NoKey, "none"),
      Msg(id, "assistant", "final_answer", JustLong, JustLong, "none"),
      Msg(id, "assistant", "planning_result", <<"c">>, <<"s">>, "none"),
      Msg(id, "tool", "tool_call_result", JustLong, NoKey, "call_0") }

Histories ==
    UNION { { h \in [1..n -> UNION {TrimPool(i) : i \in 1..n}] :
                \A i \in 1..n : h[i].message_id = i } : n \in 0..MaxHistory }

\* variant of the test that keeps only the user's messages
Protected_UserOnly(msg) == msg.role = "user"

\* messages[start_index]['role'] == 'user' or
\* messages[start_index].get('type') == 'final_answer'
Protected(msg) == msg.role = "user" \/ msg.type = "final_answer"

\* the condition of the while loop
TrimContinues ==
    /\ SerializedLen(history) > DEFAULT_MESSAGE_LIMIT
    /\ trim_start_index < Len(history)

InitTrim ==
    /\ MergeIdle /\ RunIdle /\ BufferedIdle /\ ToolIdle /\ ExecIdle /\ ClassifyIdle
    /\ McpIdle /\ ViewIdle /\ DirectIdle /\ StreamIdle /\ RegisterIdle
    /\ untrimmed \in Histories
    /\ history = untrimmed
    /\ trim_start_index = 0
    /\ trim_pc = "loop"

\* start_index += 1; continue
TrimSkip ==
    /\ trim_pc = "loop" /\ TrimContinues
    /\ Protected(history[trim_start_index + 1])
    /\ trim_start_index' = trim_start_index + 1
    /\ UNCHANGED <<untrimmed, history, trim_pc>>
    /\ UNCHANGED nonTrimVars

\* del messages[start_index]; continue
TrimDelete ==
    /\ trim_pc = "loop" /\ TrimContinues
    /\ ~Protected(history[trim_start_index + 1])
    /\ history' = RemoveAt(history, trim_start_index + 1)
    /\ UNCHANGED <<untrimmed, trim_start_index, trim_pc>>
    /\ UNCHANGED nonTrimVars

\* the loop ends: return messages
TrimReturn ==
    /\ trim_pc = "loop" /\ ~TrimContinues
    /\ trim_pc' = "returned"
    /\ UNCHANGED <<untrimmed, history, trim_start_index>>
    /\ UNCHANGED nonTrimVars

NextTrim == TrimSkip \/ TrimDelete \/ TrimReturn

SpecTrim == InitTrim /\ [][NextTrim]_vars

(***************************************************************************)
(* SpecViews: AgentBase._extract_task_description_messages and             *)
(* AgentBase._extract_completed_actions_messages, as a stage applies them  *)
(* to the messages it was called with when it prepares its prompt.         *)
(***************************************************************************)
MaxView == 3   \* length of the messages a stage is called with

nonViewVars == <<mergeVars, runVars, bufferedVars, toolVars, execVars, classifyVars,
                 mcpVars, trimVars, directVars, streamVars, registerVars>>

\* the messages of a transcript, by role and type
ViewPool(id) ==
    { Msg(id, "user", "normal", <<"hi">>, NoKey, "none"),
      Msg(id, "assistant", "normal", <<"c">>, <<"s">>, "none"),
      Msg(id, "assistant", "final_answer", <<"old answer">>, <<"old answer">>, "none"),
      Msg(id, "assistant", "task_decomposition", <<"c">>, <<"s">>, "none"),
      Msg(id, "tool", "tool_call_result", <<"r">>, <<"r">>, "call_1") }

ViewTranscripts ==
    UNION { { h \in [1..n -> UNION {ViewPool(i) : i \in 1..n}] :
                \A i \in 1..n : h[i].message_id = i } : n \in 0..MaxView }

\* for index, msg in enumerate(reversed(messages)): if msg['role'] == 'user':
\* the number of messages up to and including that one, len(messages) - index;
\* 0 when the loop ends without a break
LenMinusIndex(messages) ==
    LET users == { i \in 1..Len(messages) : messages[i].role = "user" }
    IN  IF users = {} THEN 0
        ELSE CHOOSE i \in users : \A j \in users : j <= i

\* messages[:len(messages) - index], then the filter on type
_extract_task_description_messages(messages) ==
    SelectSeq(SubSeq(messages, 1, LenMinusIndex(messages)),
              LAMBDA msg : msg.type \in {"normal", "final_answer"})

\* messages[len(messages) - index:], then the filter on type; nothing is
\* extended when no message has role user
_extract_completed_actions_messages(messages) ==
    IF LenMinusIndex(messages) = 0 THEN << >>
    ELSE SelectSeq(SubSeq(messages, LenMinusIndex(messages) + 1, Len(messages)),
                   LAMBDA msg : msg.type # "task_decomposition")

InitViews ==
    /\ MergeIdle /\ RunIdle /\ BufferedIdle /\ ToolIdle /\ ExecIdle /\ ClassifyIdle
    /\ McpIdle /\ TrimIdle /\ DirectIdle /\ StreamIdle /\ RegisterIdle
    /\ view_messages \in ViewTranscripts
    /\ task_description_messages = << >>
    /\ completed_actions_messages = << >>
    /\ extracted = {}

ExtractTaskDescription ==
    /\ "task_description" \notin extracted
    /\ task_description_messages' = _extract_task_description_messages(view_messages)
    /\ extracted' = extracted \cup {"task_description"}
    /\ UNCHANGED <<view_messages, completed_actions_messages>>
    /\ UNCHANGED nonViewVars

ExtractCompletedActions ==
    /\ "completed_actions" \notin extracted
    /\ completed_actions_messages' = _extract_completed_actions_messages(view_messages)
    /\ extracted' = extracted \cup {"completed_actions"}
    /\ UNCHANGED <<view_messages, task_description_messages>>
    /\ UNCHANGED nonViewVars

NextViews == ExtractTaskDescription \/ ExtractCompletedActions

SpecViews == InitViews /\ [][NextViews]_vars

(***************************************************************************)
(* SpecDirect: DirectExecutorAgent.run_stream, from its entry to the       *)
(* exhaustion of its generator.  The consumer drives the generator to its  *)
(* end and every stream of the completion service is finite, which is the  *)
(* fairness the specification states.                                      *)
(***************************************************************************)
MAX_LOOP_COUNT == 10

nonDirectVars == <<mergeVars, runVars, bufferedVars, toolVars, execVars, classifyVars,
                   mcpVars, trimVars, viewVars, streamVars, registerVars>>

\* a collected chunk, as _should_stop_execution reads it: whether it has
\* the key tool_calls, and its content (absent, '' or a text)
Chunk(has_tool_calls, content) == [tool_calls |-> has_tool_calls, content |-> content]

\* what one streamed completion can amount to
Completions == {"text", "nothing", "tool", "complete_task", "tool_then_complete_task",
                "raises"}

\* all_new_response_chunks after _process_streaming_response_with_tracking:
\* the text chunk and the closing newline chunk; or the tool_call message
\* and, when run_tool returned, the processed response (a failing or absent
\* tool manager goes to _handle_tool_error, whose chunk is not collected)
CollectedChunks(completion, tool_manager) ==
    CASE completion = "text"    -> <<Chunk(FALSE, "text"), Chunk(FALSE, "")>>
      [] completion \in {"tool", "tool_then_complete_task"} ->
             IF tool_manager
             THEN <<Chunk(TRUE, "absent"), Chunk(FALSE, "text")>>
             ELSE <<Chunk(TRUE, "absent")>>
      [] OTHER -> << >>

\* _handle_tool_calls returns True when it meets complete_task
CallTaskComplete(completion) ==
    completion \in {"complete_task", "tool_then_complete_task"}

\* _should_stop_execution
_should_stop_execution(chunks) ==
    \/ Len(chunks) = 0
    \/ \A i \in 1..Len(chunks) :
          ~chunks[i].tool_calls /\ chunks[i].content \in {"absent", ""}

\* variant of the test that allows one more iteration
LoopLimitReached_OffByOne(count) == count > MAX_LOOP_COUNT + 1

\* if loop_count > self.MAX_LOOP_COUNT: break
LoopLimitReached(count) == count > MAX_LOOP_COUNT

InitDirect ==
    /\ MergeIdle /\ RunIdle /\ BufferedIdle /\ ToolIdle /\ ExecIdle /\ ClassifyIdle
    /\ McpIdle /\ TrimIdle /\ ViewIdle /\ StreamIdle /\ RegisterIdle
    /\ direct_pc = "start"
    /\ direct_input \in [messages : BOOLEAN, tool_manager : BOOLEAN]
    /\ direct_loop_count = 0
    /\ llm_calls = << >>
    /\ all_new_response_chunks = << >>

\* run_stream: if not messages: return
DirectStart ==
    /\ direct_pc = "start"
    /\ direct_pc' = IF direct_input.messages THEN "suggest" ELSE "done"
    /\ UNCHANGED <<direct_input, direct_loop_count, llm_calls, all_new_response_chunks>>
    /\ UNCHANGED nonDirectVars

\* _get_suggested_tools: no call without a tool manager, or when building
\* the prompt raises; otherwise one call of the completion service, whose
\* failure gives the empty list
DirectSuggestTools ==
    /\ direct_pc = "suggest"
    /\ IF direct_input.tool_manager
       THEN \E returns \in {"list", "not_json", "raises", "prompt_raises"} :
               llm_calls' = IF returns = "prompt_raises" THEN llm_calls
                            ELSE Append(llm_calls, [purpose |-> "tool_suggestion",
                                                    returns |-> returns])
       ELSE llm_calls' = llm_calls
    /\ direct_pc' = "loop"
    /\ UNCHANGED <<direct_input, direct_loop_count, all_new_response_chunks>>
    /\ UNCHANGED nonDirectVars

\* head of  while True  in _execute_loop
DirectLoopHead ==
    /\ direct_pc = "loop"
    /\ direct_loop_count' = direct_loop_count + 1
    /\ direct_pc' = IF LoopLimitReached(direct_loop_count + 1) THEN "done" ELSE "call"
    /\ UNCHANGED <<direct_input, llm_calls, all_new_response_chunks>>
    /\ UNCHANGED nonDirectVars

\* the rest of the loop body: the chunks of the last iteration are merged
\* and dropped, the completion service is called, its stream is processed,
\* and the loop breaks on complete_task or on _should_stop_execution; an
\* exception leaves the loop for _handle_execution_error
DirectCallLLM ==
    /\ direct_pc = "call"
    /\ \E completion \in Completions :
          LET chunks == CollectedChunks(completion, direct_input.tool_manager)
          IN  /\ llm_calls' = Append(llm_calls, [purpose |-> "direct_execution",
                                                 returns |-> completion])
              /\ all_new_response_chunks' = chunks
              /\ direct_pc' = IF completion = "raises" THEN "done"
                              ELSE IF CallTaskComplete(completion) THEN "done"
                              ELSE IF _should_stop_execution(chunks) THEN "done"
                              ELSE "loop"
    /\ UNCHANGED <<direct_input, direct_loop_count>>
    /\ UNCHANGED nonDirectVars

NextDirect == DirectStart \/ DirectSuggestTools \/ DirectLoopHead \/ DirectCallLLM

SpecDirect == InitDirect /\ [][NextDirect]_vars /\ WF_vars(NextDirect)

(***************************************************************************)
(* SpecStream: ExecutorAgent._process_streaming_response, one delta of the *)
(* response per step, up to the call of _execute_tool_calls with the       *)
(* entries it has accumulated.                                             *)
(***************************************************************************)
MaxDeltas == 3   \* deltas of one streamed response

nonStreamVars == <<mergeVars, runVars, bufferedVars, toolVars, execVars, classifyVars,
                   mcpVars, trimVars, viewVars, directVars, registerVars>>

ToolCallIds == {"a", "b"}

\* function.arguments of a fragment: None, '' or a piece of text
ArgumentPieces == {"None", "", "x", "y"}

\* a fragment of delta.tool_calls; its id is None after the first fragment
\* of a call
Fragments == [id : ToolCallIds \cup {"None"}, arguments : ArgumentPieces]

\* a delta carries tool-call fragments (one, or one and a continuation
\* without id), or text content, or has no choices (the usage statistics)
Deltas ==
    { [kind |-> "tool_calls", tool_calls |-> <<f>>] : f \in Fragments }
    \cup { [kind |-> "tool_calls", tool_calls |-> <<f, g>>] :
             f \in Fragments,
             g \in { h \in Fragments : h.id = "None" /\ h.arguments \in {"x", "y"} } }
    \cup { [kind |-> "content", tool_calls |-> << >>],
           [kind |-> "no_choices", tool_calls |-> << >>] }

\* if tool_call.function.arguments:
Truthy(piece) == piece \notin {"None", ""}

\* the position of the entry with this key in tool_calls, 0 when absent
EntryOf(calls, id) ==
    IF \E i \in 1..Len(calls) : calls[i].id = id
    THEN CHOOSE i \in 1..Len(calls) : calls[i].id = id
    ELSE 0

\* one iteration of the loop of _handle_tool_calls_chunk; h holds
\* tool_calls, the handler's own last_tool_call_id, and whether += raised
\* TypeError on an entry whose arguments are None
HandleFragment(h, f) ==
    LET last == IF f.id # "None" THEN f.id ELSE h.last_tool_call_id
        i    == EntryOf(h.tool_calls, last)
    IN  IF h.raised THEN h
        ELSE IF i = 0
        THEN [h EXCEPT !.last_tool_call_id = last,
                       !.tool_calls = Append(@, [id |-> last,
                                                 arguments_is_none |-> f.arguments = "None",
                                                 arguments |-> IF Truthy(f.arguments)
                                                               THEN <<f.arguments>>
                                                               ELSE << >>])]
        ELSE IF ~Truthy(f.arguments)
        THEN [h EXCEPT !.last_tool_call_id = last]
        ELSE IF h.tool_calls[i].arguments_is_none
        THEN [h EXCEPT !.last_tool_call_id = last, !.raised = TRUE]
        ELSE [h EXCEPT !.last_tool_call_id = last,
                       !.tool_calls[i].arguments = @ \o <<f.arguments>>]

\* _handle_tool_calls_chunk
RECURSIVE _handle_tool_calls_chunk(_, _)
_handle_tool_calls_chunk(h, fragments) ==
    IF fragments = << >> THEN h
    ELSE _handle_tool_calls_chunk(HandleFragment(h, Head(fragments)), Tail(fragments))

\* the caller's loop after the handler: the id of the last fragment of the
\* delta that carries one
RECURSIVE UpdateLastToolCallId(_, _)
UpdateLastToolCallId(last, fragments) ==
    IF fragments = << >> THEN last
    ELSE UpdateLastToolCallId(IF Head(fragments).id # "None" THEN Head(fragments).id
                              ELSE last,
                              Tail(fragments))

InitStream ==
    /\ MergeIdle /\ RunIdle /\ BufferedIdle /\ ToolIdle /\ ExecIdle /\ ClassifyIdle
    /\ McpIdle /\ TrimIdle /\ ViewIdle /\ DirectIdle /\ RegisterIdle
    /\ spc = "reading"
    /\ stream_response \in SeqsUpTo(Deltas, MaxDeltas)
    /\ consumed = 0
    /\ stream_tool_calls = << >>
    /\ last_tool_call_id = "None"

NextDelta == stream_response[consumed + 1]

\* if len(chunk.choices) == 0: continue
StreamNoChoices ==
    /\ spc = "reading" /\ consumed < Len(stream_response)
    /\ NextDelta.kind = "no_choices"
    /\ consumed' = consumed + 1
    /\ UNCHANGED <<spc, stream_response, stream_tool_calls, last_tool_call_id>>
    /\ UNCHANGED nonStreamVars

\* if chunk.choices[0].delta.tool_calls: the handler, then the update of
\* last_tool_call_id; a TypeError of the handler leaves the function
StreamToolCalls ==
    /\ spc = "reading" /\ consumed < Len(stream_response)
    /\ NextDelta.kind = "tool_calls"
    /\ LET h == _handle_tool_calls_chunk(
                    [tool_calls |-> stream_tool_calls,
                     last_tool_call_id |-> last_tool_call_id, raised |-> FALSE],
                    NextDelta.tool_calls)
       IN  /\ stream_tool_calls' = h.tool_calls
           /\ spc' = IF h.raised THEN "raised" ELSE "reading"
           /\ last_tool_call_id' = IF h.raised THEN last_tool_call_id
                                   ELSE UpdateLastToolCallId(last_tool_call_id,
                                                             NextDelta.tool_calls)
    /\ consumed' = consumed + 1
    /\ UNCHANGED stream_response
    /\ UNCHANGED nonStreamVars

\* elif chunk.choices[0].delta.content: break when tool_calls has entries,
\* and then _execute_tool_calls; otherwise the text is yielded
StreamContent ==
    /\ spc = "reading" /\ consumed < Len(stream_response)
    /\ NextDelta.kind = "content"
    /\ consumed' = consumed + 1
    /\ spc' = IF stream_tool_calls # << >> THEN "execute" ELSE "reading"
    /\ UNCHANGED <<stream_response, stream_tool_calls, last_tool_call_id>>
    /\ UNCHANGED nonStreamVars

\* the response is exhausted: _execute_tool_calls when tool_calls has
\* entries, the closing message otherwise
StreamEnd ==
    /\ spc = "reading" /\ consumed = Len(stream_response)
    /\ spc' = IF stream_tool_calls # << >> THEN "execute" ELSE "done"
    /\ UNCHANGED <<stream_response, consumed, stream_tool_calls, last_tool_call_id>>
    /\ UNCHANGED nonStreamVars

NextStream == StreamNoChoices \/ StreamToolCalls \/ StreamContent \/ StreamEnd

SpecStream == InitStream /\ [][NextStream]_vars

(***************************************************************************)
(* SpecLoop: the main loop entered at its Observe phase.  In a run started *)
(* by run_stream the call of the Execute stage raises TypeError, so the    *)
(* Observe phase and _check_loop_completion are exercised from the entry   *)
(* of _execute_observation_phase in iteration loop_count.                  *)
(***************************************************************************)
LoopTranscripts ==
    { <<CallerMsg(1),
        PlanningMsg(FirstUuid, <<"Planning: ", "{\"next_step\": {..}}">>, <<"s">>)>>,
      <<CallerMsg(1),
        PlanningMsg(FirstUuid, <<"Planning: ", "{\"next_step\": {..}}">>, <<"s">>),
        Msg(FirstUuid + 1, "assistant", "do_subtask_result", <<"r">>, <<"r">>, "none")>> }

InitLoop ==
    /\ ToolIdle
    /\ ExecIdle
    /\ ClassifyIdle /\ McpIdle /\ TrimIdle /\ ViewIdle /\ DirectIdle /\ StreamIdle /\ RegisterIdle
    /\ BufferedIdle
    /\ MergeIdle
    /\ pc = "call" /\ stage = "observation"
    /\ cfg \in {c \in Configs : c.deep_research /\ c.max_loop_count >= 1}
    /\ input_messages = <<CallerMsg(1)>>
    /\ all_messages \in LoopTranscripts
    /\ yielded = << >>
    /\ loop_count \in 1..cfg.max_loop_count
    /\ invoked = << >> /\ completed = << >>
    /\ uuid = FirstUuid + 2 /\ script = << >> /\ exc = NoExc /\ raised = FALSE
    /\ obs_check = NoCheck /\ all_content = << >>
    /\ produced = << >> /\ prepared_messages = all_messages

NextLoop ==
    \/ ObservationPhase
    \/ CheckLoopCompletion
    \/ MainLoopHead
    \/ PlanningPhase
    \/ ExecutionPhase
    \/ TaskSummaryPhase
    \/ YieldChunk
    \/ PhaseReturn
    \/ HandleWorkflowError
    \/ RunStreamReturn

SpecLoop == InitLoop /\ [][NextLoop]_vars

(***************************************************************************)
(* SpecRun: AgentController.run, the buffered form, called with the input  *)
(* of a run_stream that has been drained                                   *)
(***************************************************************************)
\* chunks: the fragments of all the batches of a stream, in order
RECURSIVE Flatten(_)
Flatten(batches) == IF batches = << >> THEN << >> ELSE Head(batches) \o Flatten(Tail(batches))

\* AgentBase._merge_chunks
RECURSIVE _merge_chunks(_, _)
_merge_chunks(chunks, result) ==
    IF chunks = << >> THEN result
    ELSE LET chunk == Head(chunks)
             at    == MapIndex(result, chunk.message_id)
         IN  IF chunk.message_id = NoId
             THEN _merge_chunks(Tail(chunks), Append(result, chunk))
             ELSE IF at # 0
             THEN _merge_chunks(Tail(chunks),
                      [result EXCEPT ![at] =
                          [@ EXCEPT !.content = IF chunk.content = NoKey THEN @
                                                ELSE Get(@) \o chunk.content,
                                    !.show_content = IF chunk.show_content = NoKey THEN @
                                                     ELSE Get(@) \o chunk.show_content]])
             ELSE _merge_chunks(Tail(chunks), Append(result, chunk))

\* the keyword arguments <Stage>Agent.run passes to super().run
SuperRunKwargs(s) ==
    IF s \in {"execution", "summary"} THEN SystemContextSignature ELSE ContextSignature

\* the parameters of AgentBase.run
AgentBaseRunParams == {"messages", "tool_manager", "session_id", "system_context"}

RunTypeErrorText == "AgentBase.run() got an unexpected keyword argument 'context'"

\* the stage run calls after stage s has returned
StageAfter(s) ==
    CASE s = "analysis"  -> "planning"
      [] s = "planning"  -> "execution"
      [] s = "execution" -> "observation"
      [] OTHER           -> "none"

\* run up to its first stage call
RunStart ==
    /\ pc = "done"
    /\ rpc = "idle"
    /\ run_messages' = input_messages
    /\ new_messages' = << >>
    /\ rstage' = IF cfg.deep_thinking THEN "analysis" ELSE "planning"
    /\ rpc' = "call"
    /\ UNCHANGED <<run_invoked, run_exc, run_result>>
    /\ UNCHANGED nonBufferedVars

\* <stage>_messages = self.<stage>_agent.run(all_messages, ...);
\* all_messages.extend(...); new_messages.extend(...)
RunCall(s) ==
    /\ run_invoked' = Append(run_invoked, s)
    /\ IF Binds(SuperRunKwargs(s), AgentBaseRunParams)
       THEN /\ \E sc \in StageScripts(s, uuid + 2 * Len(run_invoked), run_messages) :
                   LET stage_messages == _merge_chunks(Flatten(sc), << >>)
                   IN  /\ run_messages' = run_messages \o stage_messages
                       /\ new_messages' = new_messages \o stage_messages
            /\ rstage' = StageAfter(s)
            /\ rpc' = "call"
            /\ run_exc' = run_exc
       ELSE /\ run_messages' = run_messages
            /\ new_messages' = new_messages
            /\ rstage' = rstage
            /\ rpc' = "except"
            /\ run_exc' = [class |-> "TypeError", text |-> RunTypeErrorText]
    /\ UNCHANGED run_result
    /\ UNCHANGED nonBufferedVars

TaskAnalysisNonStream ==
    /\ rpc = "call" /\ rstage = "analysis"
    /\ RunCall("analysis")

PlanningNonStream ==
    /\ rpc = "call" /\ rstage = "planning"
    /\ RunCall("planning")

RunErrorMsg(error) ==
    Msg(NoId, "assistant", "final_answer", <<"workflow failed: ", error.text>>, NoKey, "none")

\* the except clause of run
RunExcept ==
    /\ rpc = "except"
    /\ IF Catches(run_exc.class)
       THEN /\ run_result' = [all_messages |-> input_messages \o <<RunErrorMsg(run_exc)>>,
                              new_messages |-> <<RunErrorMsg(run_exc)>>,
                              final_output |-> RunErrorMsg(run_exc)]
            /\ rpc' = "returned"
       ELSE /\ run_result' = run_result
            /\ rpc' = "raised"
    /\ UNCHANGED <<rstage, run_messages, new_messages, run_invoked, run_exc>>
    /\ UNCHANGED nonBufferedVars

NextRun ==
    \/ PrepareRun
    \/ TaskAnalysisPhase
    \/ TaskDecompositionPhase
    \/ MainLoopHead
    \/ PlanningPhase
    \/ ExecutionPhase
    \/ TaskSummaryPhase
    \/ DirectWorkflow
    \/ YieldChunk
    \/ PhaseReturn
    \/ HandleWorkflowError
    \/ RunStreamReturn
    \/ RunStart
    \/ TaskAnalysisNonStream
    \/ PlanningNonStream
    \/ RunExcept

SpecRun == Init /\ [][NextRun]_vars

(***************************************************************************)
(* SpecTool: ToolManager.register_tool and ToolManager.run_tool            *)
(***************************************************************************)
MaxToolCalls == 2   \* calls of run_tool in one behaviour
MaxParts     == 2   \* parts of one remote response

Kinds == {"ToolSpec", "McpToolSpec", "AgentToolSpec"}

\* the specifications offered for registration
ToolSpecs == { [name |-> "calc",    kind |-> "ToolSpec"],
               [name |-> "calc",    kind |-> "McpToolSpec"],
               [name |-> "search",  kind |-> "McpToolSpec"],
               [name |-> "planner", kind |-> "AgentToolSpec"] }

\* the names a caller may ask for: registered names and near misses
RequestNames == {"calc", "search", "planner", "Calc", "calc ", "cal", "missing"}

\* variant of register_tool that stores the specification without the test
register_tool_Overwriting(registry, tool_spec) ==
    [n \in (DOMAIN registry) \cup {tool_spec.name} |->
        IF n = tool_spec.name THEN tool_spec.kind ELSE registry[n]]

\* register_tool: the first registration of a name wins
register_tool(registry, tool_spec) ==
    IF tool_spec.name \in DOMAIN registry
    THEN registry
    ELSE [n \in (DOMAIN registry) \cup {tool_spec.name} |->
            IF n = tool_spec.name THEN tool_spec.kind ELSE registry[n]]

\* variant of get_tool that ignores letter case and surrounding blanks
get_tool_Normalizing(registry, name) ==
    LET norm == CASE name = "Calc"  -> "calc"
                  [] name = "calc " -> "calc"
                  [] OTHER          -> name
    IN  IF norm \in DOMAIN registry THEN registry[norm] ELSE "none"

\* get_tool: self.tools.get(name)
get_tool(registry, name) ==
    IF name \in DOMAIN registry THEN registry[name] ELSE "none"

\* the parts of a remote response: text parts and a part without text
Parts == { [type |-> "text", text |-> "a"], [type |-> "text", text |-> "b"],
           [type |-> "image", text |-> "none"] }

NoBehaviour == [do |-> "none", type |-> "none", text |-> << >>, parts |-> << >>]

\* what the capability of a kind can do when it is called
Behaviours(kind) ==
    CASE kind = "ToolSpec" ->
            { [NoBehaviour EXCEPT !.do = "reject"],
              [NoBehaviour EXCEPT !.do = "raise"],
              [NoBehaviour EXCEPT !.do = "return", !.type = "str", !.text = <<"4">>],
              [NoBehaviour EXCEPT !.do = "return", !.type = "dict",
                                  !.text = <<"{", "\"sum\": ", "4", "}">>],
              [NoBehaviour EXCEPT !.do = "return", !.type = "unserializable"] }
      [] kind = "McpToolSpec" ->
            { [NoBehaviour EXCEPT !.do = "transport"],
              [NoBehaviour EXCEPT !.do = "reject"] }
            \cup { [NoBehaviour EXCEPT !.do = "return", !.type = "parts", !.parts = ps]
                     : ps \in SeqsUpTo(Parts, MaxParts) }
      [] kind = "AgentToolSpec" ->
            { [NoBehaviour EXCEPT !.do = "raise"],
              [NoBehaviour EXCEPT !.do = "return", !.type = "messages"] }
      [] OTHER -> { NoBehaviour }

ContentEnvelope(text) ==
    [NoEnvelope EXCEPT !.keys = {"content"}, !.content_type = "string", !.content = text]

MessagesEnvelope ==
    [NoEnvelope EXCEPT !.keys = {"messages"}, !.messages_type = "list"]

\* _format_error_response
_format_error_response(tool_name, error_type, exception_detail) ==
    [NoEnvelope EXCEPT
        !.keys = {"error", "error_type", "message", "tool_name", "timestamp"}
                     \cup (IF exception_detail THEN {"exception_detail"} ELSE {}),
        !.error = TRUE, !.error_type = error_type, !.tool_name = tool_name]

\* item.get('text', str(item))
PartText(part) == IF part.type = "text" THEN part.text ELSE "{'type': 'image'}"

\* '\n'.join(...)
RECURSIVE JoinLines(_)
JoinLines(texts) ==
    IF texts = << >> THEN << >>
    ELSE IF Len(texts) = 1 THEN <<Head(texts)>>
    ELSE <<Head(texts), "\n">> \o JoinLines(Tail(texts))

\* the result a capability call gives to run_tool: the serialized envelope,
\* or the exception that the call or the serialization raises
\* (_execute_standard_tool, _execute_mcp_tool, _execute_agent_tool)
ExecuteTool(kind, b) ==
    IF b.do \in {"reject", "raise", "transport"} \/ b.type = "unserializable"
    THEN [raises |-> TRUE, empty |-> FALSE, value |-> NoEnvelope]
    ELSE IF kind = "ToolSpec"
    THEN [raises |-> FALSE, empty |-> FALSE, value |-> ContentEnvelope(b.text)]
    ELSE IF kind = "McpToolSpec"
    THEN [raises |-> FALSE, empty |-> FALSE,
          value |-> IF b.parts # << >>
                    THEN ContentEnvelope(
                             JoinLines([k \in 1..Len(b.parts) |-> PartText(b.parts[k])]))
                    ELSE [NoEnvelope EXCEPT !.keys = {"meta", "content", "isError"},
                                            !.content_type = "list"]]
    ELSE [raises |-> FALSE, empty |-> FALSE, value |-> MessagesEnvelope]

\* _validate_json_response: the text is not empty and json.loads accepts it
_validate_json_response(final_result) == ~final_result.empty

\* the failure a call injects
FailureOf(kind, b) ==
    CASE kind = "none"               -> "unregistered"
      [] b.do = "reject"             -> "rejected_arguments"
      [] b.do = "transport"          -> "transport_failure"
      [] b.do = "raise"              -> "capability_raises"
      [] b.type = "unserializable"   -> "capability_raises"
      [] OTHER                       -> "none"

\* the code of the capability was entered
Enters(b) == b.do \in {"raise", "return"}

\* one call of _log_execution: its success flag and its error_type
Logged(success, error_type) == [success |-> success, error_type |-> error_type]

\* variant of run_tool that indexes the registry without the lookup test
run_tool_Unchecked(registry, tool_name, b) ==
    LET tool == get_tool(registry, tool_name)
    IN  IF tool = "none"
        THEN [raised |-> TRUE, envelope |-> NoEnvelope, success |-> FALSE, log |-> << >>]
        ELSE LET final_result == ExecuteTool(tool, b)
             IN  IF final_result.raises
                 THEN [raised |-> FALSE, success |-> FALSE,
                       envelope |-> _format_error_response(tool_name, "EXECUTION_ERROR", TRUE),
                       log |-> <<Logged(FALSE, "EXECUTION_ERROR")>>]
                 ELSE [raised |-> FALSE, success |-> TRUE, envelope |-> final_result.value,
                       log |-> <<Logged(TRUE, "None")>>]

\* run_tool: the envelope returned for a call whose capability does b
run_tool(registry, tool_name, b) ==
    LET tool == get_tool(registry, tool_name)
    IN  IF tool = "none"
        THEN [raised |-> FALSE, success |-> FALSE,
              envelope |-> _format_error_response(tool_name, "TOOL_NOT_FOUND", FALSE),
              log |-> <<Logged(FALSE, "TOOL_NOT_FOUND")>>]
        ELSE IF tool \notin Kinds
        THEN [raised |-> FALSE, success |-> FALSE,
              envelope |-> _format_error_response(tool_name, "UNKNOWN_TOOL_TYPE", FALSE),
              log |-> <<Logged(FALSE, "UNKNOWN_TOOL_TYPE")>>]
        ELSE LET final_result == ExecuteTool(tool, b)
             IN  IF final_result.raises
                 THEN [raised |-> FALSE, success |-> FALSE,
                       envelope |-> _format_error_response(tool_name, "EXECUTION_ERROR", TRUE),
                       log |-> <<Logged(FALSE, "EXECUTION_ERROR")>>]
                 ELSE IF ~_validate_json_response(final_result)
                 THEN [raised |-> FALSE, success |-> FALSE,
                       envelope |-> _format_error_response(tool_name, "INVALID_JSON", FALSE),
                       log |-> <<Logged(FALSE, "INVALID_JSON")>>]
                 ELSE [raised |-> FALSE, success |-> TRUE, envelope |-> final_result.value,
                       log |-> <<Logged(TRUE, "None")>>]

\* error_types[error_type] = error_types.get(error_type, 0) + 1
CountErrorType(error_types, error_type) ==
    [t \in (DOMAIN error_types) \cup {error_type} |->
        IF t = error_type
        THEN (IF t \in DOMAIN error_types THEN error_types[t] ELSE 0) + 1
        ELSE error_types[t]]

\* variant of _log_execution that counts a failure under the total only
_log_execution_TotalOnly(stats, success, error_type) ==
    [stats EXCEPT !.total_executions = @ + 1,
                  !.successful_executions = IF success THEN @ + 1 ELSE @]

\* _log_execution
_log_execution(stats, success, error_type) ==
    [stats EXCEPT !.total_executions = @ + 1,
                  !.successful_executions = IF success THEN @ + 1 ELSE @,
                  !.failed_executions = IF success THEN @ ELSE @ + 1,
                  !.error_types = IF ~success /\ error_type # "None"
                                  THEN CountErrorType(@, error_type) ELSE @]

\* the calls of _log_execution that one call of run_tool makes, in order
RECURSIVE LogAll(_, _)
LogAll(stats, log) ==
    IF log = << >> THEN stats
    ELSE LogAll(_log_execution(stats, Head(log).success, Head(log).error_type), Tail(log))

SessionIds == {"", "s1"}

\* _run_mcp_tool_async: an absent session_id is "default", and a session_id
\* without an entry gets an empty one
EnsureSession(sessions, session_id) ==
    LET key == IF session_id = "" THEN "default" ELSE session_id
    IN  IF key \in DOMAIN sessions THEN sessions
        ELSE [k \in (DOMAIN sessions) \cup {key} |->
                IF k = key THEN << >> ELSE sessions[k]]

InitTool == MergeIdle /\ RunIdle /\ BufferedIdle /\ ToolIdle /\ ExecIdle /\ ClassifyIdle /\ McpIdle /\ TrimIdle /\ ViewIdle /\ DirectIdle /\ StreamIdle /\ RegisterIdle

\* register_tool called with one of the offered specifications; a name that
\* is already registered leaves the registry as it is and returns False
RegisterTool ==
    /\ \E tool_spec \in ToolSpecs :
          /\ tools' = register_tool(tools, tool_spec)
          /\ register_call' = [name |-> tool_spec.name, kind |-> tool_spec.kind,
                               returned |-> tool_spec.name \notin DOMAIN tools]
    /\ UNCHANGED <<execution_stats, mcp_sessions, tool_call, tool_result, tool_raised,
                   executed, close_calls>>
    /\ UNCHANGED <<mergeVars, runVars, bufferedVars, execVars, classifyVars, mcpVars,
                   trimVars, viewVars, directVars, streamVars>>

RunTool ==
    /\ tool_call.number < MaxToolCalls
    /\ ~tool_raised
    /\ \E tool_name \in RequestNames, session_id \in SessionIds :
       \E b \in Behaviours(get_tool(tools, tool_name)) :
          LET kind == get_tool(tools, tool_name)
              r    == run_tool(tools, tool_name, b)
          IN  /\ tool_call' = [tool_name |-> tool_name, failure |-> FailureOf(kind, b),
                               kind |-> kind, session_id |-> session_id,
                               number |-> tool_call.number + 1]
              /\ tool_result' = r.envelope
              /\ tool_raised' = r.raised
              /\ executed' = IF kind # "none" /\ Enters(b)
                             THEN Append(executed, tool_name) ELSE executed
              /\ mcp_sessions' = IF kind = "McpToolSpec"
                                 THEN EnsureSession(mcp_sessions, session_id)
                                 ELSE mcp_sessions
              /\ execution_stats' = LogAll(execution_stats, r.log)
    /\ UNCHANGED <<tools, close_calls>>
    /\ UNCHANGED nonToolVars

NextTool == RegisterTool \/ RunTool

SpecTool == InitTool /\ [][NextTool]_vars

(***************************************************************************)
(* SpecCleanup: ToolManager.cleanup_session applied to a session map of    *)
(* the declared type {session_id: {server_name: session}}.  The dict of a  *)
(* session is the sequence of its items in insertion order; run_tool only  *)
(* ever creates empty dicts, so the populated maps stand for sessions      *)
(* stored by the code that embeds the manager.                             *)
(***************************************************************************)
MaxConnections == 2   \* connections kept for one session_id

CleanupSessionIds == {"s1", "s2"}
ServerNames       == {"srvA", "srvB"}

\* a kept connection: session.close() returns, or raises an Exception
Connections == [server_name : ServerNames, close : {"returns", "raises"}]

\* the dicts one session_id can have: each server_name at most once
ConnectionDicts ==
    { d \in SeqsUpTo(Connections, MaxConnections) :
        \A i, j \in 1..Len(d) : i # j => d[i].server_name # d[j].server_name }

SessionMaps ==
    UNION { [ks -> ConnectionDicts] : ks \in SUBSET CleanupSessionIds }

\* variant of the loop without the try/except around session.close()
CloseLoop_StopOnError(session_id, conns) ==
    LET failing == { i \in 1..Len(conns) : conns[i].close = "raises" }
        upto    == IF failing = {} THEN Len(conns)
                   ELSE CHOOSE i \in failing : \A j \in failing : i <= j
    IN  [calls  |-> [i \in 1..upto |->
                       [session_id |-> session_id,
                        server_name |-> conns[i].server_name,
                        outcome |-> conns[i].close]],
         raised |-> failing # {}]

\* for server_name, session in ....items(): try: await session.close()
\* except Exception: log
CloseLoop(session_id, conns) ==
    [calls  |-> [i \in 1..Len(conns) |->
                   [session_id |-> session_id,
                    server_name |-> conns[i].server_name,
                    outcome |-> conns[i].close]],
     raised |-> FALSE]

\* del self._mcp_sessions[session_id]
DelSession(sessions, session_id) ==
    [k \in (DOMAIN sessions) \ {session_id} |-> sessions[k]]

InitCleanup ==
    /\ MergeIdle /\ RunIdle /\ BufferedIdle /\ ExecIdle /\ ClassifyIdle /\ McpIdle /\ TrimIdle /\ ViewIdle /\ DirectIdle /\ StreamIdle /\ RegisterIdle
    /\ tools = NoTools /\ execution_stats = NoStats
    /\ tool_call = NoCall /\ tool_result = NoEnvelope /\ tool_raised = FALSE
    /\ executed = << >>
    /\ mcp_sessions \in SessionMaps
    /\ close_calls = << >>

\* cleanup_session(session_id)
CleanupSession ==
    /\ ~tool_raised
    /\ \E session_id \in CleanupSessionIds :
          IF session_id \in DOMAIN mcp_sessions
          THEN LET loop == CloseLoop(session_id, mcp_sessions[session_id])
               IN  /\ close_calls' = close_calls \o loop.calls
                   /\ tool_raised' = loop.raised
                   /\ mcp_sessions' = IF loop.raised THEN mcp_sessions
                                      ELSE DelSession(mcp_sessions, session_id)
          ELSE UNCHANGED <<close_calls, tool_raised, mcp_sessions>>
    /\ UNCHANGED <<tools, execution_stats, tool_call, tool_result, executed>>
    /\ UNCHANGED nonToolVars

NextCleanup == CleanupSession

SpecCleanup == InitCleanup /\ [][NextCleanup]_vars

(***************************************************************************)
(* SpecMcp: ToolManager._run_mcp_tool_async and the coroutines it awaits,  *)
(* _execute_sse_mcp_tool and _execute_stdio_mcp_tool.  Each await is one   *)
(* step, so the coroutines of different calls interleave on the event      *)
(* loop.  A connection is named by the index of the call that opened it,   *)
(* and wire[c] is what connection c was asked to do, in order.             *)
(***************************************************************************)
MaxMcpCalls == 2   \* calls of _run_mcp_tool_async in one behaviour

Transports == {"sse", "stdio"}

\* variant of the coroutine that awaits call_tool before initialize
SessionSteps_CallFirst(transport) ==
    <<IF transport = "sse" THEN "sse_client" ELSE "stdio_client",
      "ClientSession", "call_tool", "initialize">>

\* what one coroutine awaits, in order:
\*   async with sse_client(...) / stdio_client(...) as (read, write):
\*       async with ClientSession(read, write) as session:
\*           await session.initialize()
\*           result = await session.call_tool(tool.name, kwargs)
SessionSteps(transport) ==
    <<IF transport = "sse" THEN "sse_client" ELSE "stdio_client",
      "ClientSession", "initialize", "call_tool">>

OpenOps == {"sse_client", "stdio_client"}

\* variant of the coroutine that closes by hand after call_tool, without
\* async with
ExitOps_OnReturnOnly(status) ==
    IF status = "exit_returning" THEN <<[op |-> "close", ok |-> TRUE]>> ELSE << >>

\* what leaving the async with blocks asks of the connection, whether the
\* body returned or raised
ExitOps(status) == <<[op |-> "close", ok |-> TRUE]>>

InitMcp ==
    /\ MergeIdle /\ RunIdle /\ BufferedIdle /\ ToolIdle /\ ExecIdle /\ ClassifyIdle
    /\ McpIdle /\ TrimIdle /\ ViewIdle /\ DirectIdle /\ StreamIdle /\ RegisterIdle

\* _run_mcp_tool_async up to its first await: the session_id gets its entry
\* and the coroutine of the tool's transport is created
McpStart ==
    /\ Len(mcp_calls) < MaxMcpCalls
    /\ \E session_id \in SessionIds, transport \in Transports :
          /\ mcp_sessions' = EnsureSession(mcp_sessions, session_id)
          /\ mcp_calls' = Append(mcp_calls,
                 [transport |-> transport, session_id |-> session_id,
                  done |-> 0, status |-> "running"])
          /\ wire' = Append(wire, << >>)
    /\ UNCHANGED <<tools, execution_stats, tool_call, tool_result, tool_raised,
                   executed, close_calls>>
    /\ UNCHANGED <<mergeVars, runVars, bufferedVars, execVars, classifyVars, trimVars, viewVars, directVars, streamVars, registerVars>>

\* one await of a running coroutine: it returns or raises.  A context
\* manager that was entered is left on the way out; a transport that could
\* not be opened leaves nothing to close.
McpStep ==
    /\ \E c \in 1..Len(mcp_calls), ok \in BOOLEAN :
          LET call  == mcp_calls[c]
              steps == SessionSteps(call.transport)
              op    == steps[call.done + 1]
          IN  /\ call.status = "running"
              /\ wire' = [wire EXCEPT ![c] = Append(@, [op |-> op, ok |-> ok])]
              /\ mcp_calls' = [mcp_calls EXCEPT ![c] =
                    [@ EXCEPT !.done = IF ok THEN call.done + 1 ELSE call.done,
                              !.status =
                                 IF ~ok /\ call.done = 0 THEN "raised"
                                 ELSE IF ~ok THEN "exit_raising"
                                 ELSE IF call.done + 1 = Len(steps) THEN "exit_returning"
                                 ELSE "running"]]
    /\ UNCHANGED toolVars
    /\ UNCHANGED <<mergeVars, runVars, bufferedVars, execVars, classifyVars, trimVars, viewVars, directVars, streamVars, registerVars>>

\* __aexit__ of the context managers that were entered: the connection is
\* closed, then result.model_dump() is returned or the exception goes to
\* the except clause of _run_mcp_tool_async, which re-raises it
McpExit ==
    /\ \E c \in 1..Len(mcp_calls) :
          /\ mcp_calls[c].status \in {"exit_raising", "exit_returning"}
          /\ wire' = [wire EXCEPT ![c] = @ \o ExitOps(mcp_calls[c].status)]
          /\ mcp_calls' = [mcp_calls EXCEPT ![c].status =
                              IF @ = "exit_returning" THEN "returned" ELSE "raised"]
    /\ UNCHANGED toolVars
    /\ UNCHANGED <<mergeVars, runVars, bufferedVars, execVars, classifyVars, trimVars, viewVars, directVars, streamVars, registerVars>>

\* remote calls, and cleanup_session between their steps
NextMcp == McpStart \/ McpStep \/ McpExit \/ CleanupSession

SpecMcp == InitMcp /\ [][NextMcp]_vars

(***************************************************************************)
(* SpecExec: ExecutorAgent.run_stream inside the controller's Execute      *)
(* phase.  In a run started by run_stream the call of the Execute stage    *)
(* raises TypeError, so the body of the stage is exercised from the entry  *)
(* of _execute_stream_internal in iteration loop_count, with the keyword   *)
(* arguments the stage declares.                                           *)
(***************************************************************************)
\* _get_last_sub_task: index of the last assistant planning_result, 0 for None
_get_last_sub_task(messages) ==
    LET hits == { i \in 1..Len(messages) :
                    /\ messages[i].role = "assistant"
                    /\ messages[i].type = "planning_result" }
    IN  IF hits = {} THEN 0 ELSE CHOOSE i \in hits : \A j \in hits : j <= i

\* the tokens made only of the characters str.strip is given (backtick,
\* j, s, o, n, backslash)
FenceTokens == {"<fence>", "<fence>json", "json"}

\* str.strip(chars): leading and trailing characters of the set are removed
RECURSIVE LStripChars(_)
LStripChars(text) ==
    IF text # << >> /\ Head(text) \in FenceTokens THEN LStripChars(Tail(text)) ELSE text

RECURSIVE RStripChars(_)
RStripChars(text) ==
    IF text # << >> /\ text[Len(text)] \in FenceTokens
    THEN RStripChars(SubSeq(text, 1, Len(text) - 1)) ELSE text

\* json.loads of the cleaned plan followed by the three key lookups:
\* white space around the document is skipped
PlanLookup(text) ==
    LET body == SelectSeq(text, LAMBDA t : t # "\n")
    IN  CASE body = <<"{\"next_step\": {..}}">> -> "ok"
          [] body = <<"{\"next_step\": {}}">>   -> "KeyError"
          [] OTHER                              -> "JSONDecodeError"

\* _parse_subtask_info: "ok", or the class of the exception that leaves it
_parse_subtask_info(messages) ==
    LET last == _get_last_sub_task(messages)
    IN  IF last = 0 THEN "ValueError"
        ELSE LET content == Get(messages[last].content)
                 plan    == IF content # << >> /\ Head(content) = "Planning: "
                            THEN Tail(content) ELSE content
                 cleaned_content == RStripChars(LStripChars(plan))
             IN  IF PlanLookup(cleaned_content) = "ok" THEN "ok" ELSE "JSONDecodeError"

\* variant of the handler that lets the request message out before the error
_handle_execution_error_AfterPrompt(error, u) ==
    << <<Msg(u, "assistant", "do_subtask", <<"do: ", "s">>, << >>, "none")>>,
       <<ErrorMsg(u + 1, "do_subtask_result", "execution failed: " \o error)>> >>

\* _handle_execution_error: _handle_error_generic with type do_subtask_result
_handle_execution_error(error, u) ==
    << <<ErrorMsg(u, "do_subtask_result", "execution failed: " \o error)>> >>

\* _send_task_execution_prompt
_send_task_execution_prompt(u) ==
    << <<Msg(u, "assistant", "do_subtask", <<"do: ", "s">>, << >>, "none")>> >>

\* one requested tool call: its id, the name it asks for, and whether
\* json.loads accepts its arguments
ToolCall(id, name, ok) == [id |-> id, name |-> name, arguments_ok |-> ok]

\* what the model streams back: text deltas, the tool calls it requests,
\* or a stream that raises
LLMResponses ==
    { [fails |-> FALSE, text |-> <<"r">>, calls |-> << >>],
      [fails |-> FALSE, text |-> << >>, calls |-> <<ToolCall("call_1", "calc", TRUE)>>],
      [fails |-> FALSE, text |-> << >>,
       calls |-> <<ToolCall("call_1", "missing", TRUE), ToolCall("call_2", "calc", TRUE)>>],
      [fails |-> FALSE, text |-> << >>,
       calls |-> <<ToolCall("call_1", "calc", FALSE), ToolCall("call_2", "search", TRUE)>>],
      [fails |-> FALSE, text |-> << >>,
       calls |-> <<ToolCall("call_1", "planner", TRUE), ToolCall("call_2", "calc", TRUE)>>],
      [fails |-> TRUE, text |-> << >>, calls |-> << >>] }

\* what a capability does when the Execute stage calls it
ExecBehaviours(kind) ==
    { b \in Behaviours(kind) :
        \/ b.do \in {"raise", "transport", "none"}
        \/ b.do = "return" /\ b.type \in {"str", "messages"}
        \/ b.do = "return" /\ b.type = "parts"
                           /\ b.parts \in {<< >>, <<[type |-> "text", text |-> "a"]>>} }

\* the serialized envelope, as the text of a message
EnvelopeText(envelope) ==
    IF envelope.error
    THEN <<"{\"error\": true, \"error_type\": ", envelope.error_type, "}">>
    ELSE IF "content" \in envelope.keys
    THEN <<"{\"content\": ">> \o envelope.content \o <<"}">>
    ELSE <<"{\"messages\": [..]}">>

ToolMsg(u, content, show, tool_call_id) ==
    Msg(u, "tool", "tool_call_result", content, show, tool_call_id)

\* _handle_tool_error
_handle_tool_error(tool_call_id, tool_name, u) ==
    <<ToolMsg(u, <<"tool ", tool_name, " failed">>, <<"tool call failed\n\n">>,
              tool_call_id)>>

\* process_tool_response: run_tool returns text that json.loads accepts
process_tool_response(envelope, tool_call_id, u) ==
    IF "content" \in envelope.keys
    THEN <<ToolMsg(u, EnvelopeText(envelope),
                   <<"\n<fence>json\n">> \o envelope.content \o <<"\n<fence>\n">>,
                   tool_call_id)>>
    ELSE IF "messages" \in envelope.keys
    THEN <<Msg(u, "assistant", "nested_result", <<"n">>, <<"n">>, "none")>>
    ELSE <<ToolMsg(u, EnvelopeText(envelope),
                   <<"\n">> \o EnvelopeText(envelope) \o <<"\n">>, tool_call_id)>>

\* the message that announces a call: a hand-over note for a nested agent,
\* the tool_calls record otherwise
AnnounceMsg(kind, c, u) ==
    IF kind = "AgentToolSpec"
    THEN Msg(u, "assistant", "tool_call", <<"handed over to ", c.name>>,
             <<"handed over to ", c.name>>, "none")
    ELSE [Msg(u, "assistant", "tool_call", NoKey, <<"call tool: ", c.name, "\n\n">>,
              "none") EXCEPT !.tool_calls = c.id]

\* variant of the loop body that yields the result before the announcement
CallChunks_ResultFirst(announce, result) == <<result, <<announce>>>>

\* the two yields of the loop body: the tool-call message, then the result
CallChunks(announce, result) == <<<<announce>>, result>>

\* the body of  for tool_call_id, tool_call in tool_calls.items()  for the
\* call c whose capability does b
_execute_tool_call(registry, c, b, u) ==
    LET tool == get_tool(registry, c.name)
    IN  IF tool = "none"
        THEN [chunks |-> << >>, uuid |-> u, outcome |-> "skipped", ran |-> FALSE]
        ELSE IF ~c.arguments_ok
        THEN [chunks |-> CallChunks(AnnounceMsg(tool, c, u),
                                    _handle_tool_error(c.id, c.name, u + 1)),
              uuid |-> u + 2, outcome |-> "error", ran |-> FALSE]
        ELSE LET r == run_tool(registry, c.name, b)
             IN  [chunks |-> CallChunks(AnnounceMsg(tool, c, u),
                                IF r.raised
                                THEN _handle_tool_error(c.id, c.name, u + 1)
                                ELSE process_tool_response(r.envelope, c.id, u + 1)),
                  uuid |-> u + 2,
                  outcome |-> IF r.success THEN "result" ELSE "error",
                  ran |-> TRUE]

\* variant of the loop that gives up the remaining calls after a failure
RemainingCalls_StopOnFailure(calls, outcome) ==
    IF outcome = "error" THEN << >> ELSE Tail(calls)

\* the calls the for loop has still to visit after one iteration: the
\* try/except is inside the loop
RemainingCalls(calls, outcome) == Tail(calls)

\* the registry of the tool manager the controller was built with
ExecRegistry ==
    register_tool(register_tool(register_tool(NoTools,
        [name |-> "calc", kind |-> "ToolSpec"]),
        [name |-> "search", kind |-> "McpToolSpec"]),
        [name |-> "planner", kind |-> "AgentToolSpec"])

\* the transcript at the entry of the Execute stage: after a plan, after a
\* Plan stage that failed while streaming, after one that failed at once
ExecTranscripts ==
    { <<CallerMsg(1),
        PlanningMsg(FirstUuid, <<"Planning: ", "{\"next_step\": {..}}">>, <<"s">>)>>,
      <<CallerMsg(1),
        PlanningMsg(FirstUuid, << >>, <<"\\n\\n">>),
        ErrorMsg(FirstUuid + 1, "planning_result", "planning failed")>>,
      <<CallerMsg(1),
        ErrorMsg(FirstUuid + 1, "planning_result", "planning failed")>> }

\* the transcript at the entry of the Execute stage of a later iteration
\* whose Plan stage failed at once: the plan and the result of the earlier
\* iteration, then the error message of this iteration's Plan stage
LaterTranscripts ==
    { <<CallerMsg(1),
        PlanningMsg(FirstUuid, <<"Planning: ", "{\"next_step\": {..}}">>, <<"s">>),
        Msg(FirstUuid + 1, "assistant", "do_subtask_result", <<"r">>, <<"r">>, "none"),
        ErrorMsg(FirstUuid + 2, "planning_result", "planning failed")>> }

InitExec ==
    /\ MergeIdle
    /\ BufferedIdle
    /\ ClassifyIdle /\ McpIdle /\ TrimIdle /\ ViewIdle /\ DirectIdle /\ StreamIdle /\ RegisterIdle
    /\ tools = ExecRegistry /\ execution_stats = NoStats /\ mcp_sessions = NoSessions
    /\ close_calls = << >>
    /\ tool_call = NoCall /\ tool_result = NoEnvelope /\ tool_raised = FALSE
    /\ executed = << >>
    /\ pc = "streaming" /\ stage = "execution"
    /\ cfg \in {c \in Configs : c.deep_research /\ c.deep_thinking
                                /\ c.max_loop_count >= 1}
    /\ input_messages = <<CallerMsg(1)>>
    /\ loop_count \in 1..cfg.max_loop_count
    /\ all_messages \in ExecTranscripts
                          \cup (IF loop_count >= 2 THEN LaterTranscripts ELSE {})
    /\ yielded = << >>
    /\ invoked = <<"execution">> /\ completed = << >>
    /\ uuid = FirstUuid + 3 /\ script = << >> /\ exc = NoExc /\ raised = FALSE
    /\ obs_check = NoCheck /\ all_content = << >>
    /\ produced = << >> /\ prepared_messages = all_messages
    /\ epc = "start" /\ tool_calls = << >> /\ requested = << >> /\ handled = << >>

\* _execute_stream_internal up to its first yield: the plan is parsed and
\* the request message is sent, or the except clause reports the failure
ExecStart ==
    /\ pc = "streaming" /\ stage = "execution" /\ epc = "start"
    /\ LET parsed == _parse_subtask_info(all_messages)
       IN  IF parsed = "ok"
           THEN /\ script' = _send_task_execution_prompt(uuid)
                /\ epc' = "llm"
           ELSE /\ script' = _handle_execution_error(parsed, uuid)
                /\ epc' = "done"
    /\ produced' = produced \o script'
    /\ uuid' = uuid + 1
    /\ UNCHANGED <<pc, stage, cfg, input_messages, all_messages, yielded, loop_count,
                   invoked, completed, exc, raised, obs_check, all_content,
                   prepared_messages>>
    /\ UNCHANGED <<tool_calls, requested, handled>>
    /\ UNCHANGED <<mergeVars, bufferedVars, toolVars, classifyVars, mcpVars, trimVars, viewVars, directVars, streamVars, registerVars>>

\* _process_streaming_response up to the end of the model's stream: the text
\* deltas and the closing chunk, or the collected tool calls, or the except
\* clause of _execute_stream_internal
ExecCallLLM ==
    /\ pc = "streaming" /\ stage = "execution" /\ epc = "llm"
    /\ script = << >>
    /\ \E response \in LLMResponses :
          IF response.fails
          THEN /\ script' = _handle_execution_error("LLMError", uuid + 1)
               /\ epc' = "done"
               /\ UNCHANGED <<tool_calls, requested>>
          ELSE IF response.calls = << >>
          THEN /\ script' = [k \in 1..Len(response.text) |->
                               <<Msg(uuid, "assistant", "do_subtask_result",
                                     <<response.text[k]>>, <<response.text[k]>>,
                                     "none")>>]
                            \o << <<Msg(uuid, "assistant", "do_subtask_result",
                                        << >>, <<"\n">>, "none")>> >>
               /\ epc' = "done"
               /\ UNCHANGED <<tool_calls, requested>>
          ELSE /\ script' = << >>
               /\ epc' = "tools"
               /\ tool_calls' = response.calls
               /\ requested' = response.calls
    /\ produced' = produced \o script'
    /\ uuid' = uuid + 2
    /\ UNCHANGED <<pc, stage, cfg, input_messages, all_messages, yielded, loop_count,
                   invoked, completed, exc, raised, obs_check, all_content,
                   prepared_messages>>
    /\ UNCHANGED handled
    /\ UNCHANGED <<mergeVars, bufferedVars, toolVars, classifyVars, mcpVars, trimVars, viewVars, directVars, streamVars, registerVars>>

\* one iteration of the for loop of _execute_tool_calls
ExecToolCall ==
    /\ pc = "streaming" /\ stage = "execution" /\ epc = "tools"
    /\ script = << >>
    /\ tool_calls # << >>
    /\ LET c    == Head(tool_calls)
           kind == get_tool(tools, c.name)
       IN  \E b \in ExecBehaviours(kind) :
              LET step == _execute_tool_call(tools, c, b, uuid)
                  r    == run_tool(tools, c.name, b)
                  rest == RemainingCalls(tool_calls, step.outcome)
              IN  /\ script' = step.chunks
                  /\ produced' = produced \o step.chunks
                  /\ uuid' = step.uuid
                  /\ handled' = Append(handled, [id |-> c.id, outcome |-> step.outcome])
                  /\ tool_calls' = rest
                  /\ epc' = IF rest = << >> THEN "done" ELSE "tools"
                  /\ IF step.ran
                     THEN /\ tool_call' = [tool_name |-> c.name,
                                           failure |-> FailureOf(kind, b),
                                           kind |-> kind, session_id |-> "s1",
                                           number |-> tool_call.number + 1]
                          /\ tool_result' = r.envelope
                          /\ tool_raised' = r.raised
                          /\ executed' = IF Enters(b) THEN Append(executed, c.name)
                                         ELSE executed
                          /\ mcp_sessions' = IF kind = "McpToolSpec"
                                             THEN EnsureSession(mcp_sessions, "s1")
                                             ELSE mcp_sessions
                          /\ execution_stats' = LogAll(execution_stats, r.log)
                     ELSE UNCHANGED <<tool_call, tool_result, tool_raised, executed,
                                      mcp_sessions, execution_stats>>
    /\ UNCHANGED <<pc, stage, cfg, input_messages, all_messages, yielded, loop_count,
                   invoked, completed, exc, raised, obs_check, all_content,
                   prepared_messages>>
    /\ UNCHANGED <<tools, requested, close_calls>>
    /\ UNCHANGED <<mergeVars, bufferedVars, classifyVars, mcpVars, trimVars, viewVars, directVars, streamVars, registerVars>>

NextExec ==
    \/ ExecStart
    \/ ExecCallLLM
    \/ ExecToolCall
    \/ YieldChunk
    \/ PhaseReturn
    \/ ObservationPhase
    \/ CheckLoopCompletion
    \/ MainLoopHead
    \/ PlanningPhase
    \/ ExecutionPhase
    \/ TaskSummaryPhase
    \/ HandleWorkflowError
    \/ RunStreamReturn

SpecExec == InitExec /\ [][NextExec]_vars

(***************************************************************************)
(* SpecClassify: the streaming loop of a classifier-driven stage, which    *)
(* gives _judge_delta_content_type the stream one character at a time.     *)
(* Text is a sequence of characters here.                                  *)
(***************************************************************************)
MaxInner == 2   \* characters of the inner text of a field block

\* a field name and its characters
Tag(name, text) == [name |-> name, chars |-> text]

Tag_needs_more_input ==
    Tag("needs_more_input", <<"n", "e", "e", "d", "s", "_", "m", "o", "r", "e", "_", "i", "n", "p", "u", "t">>)
Tag_finish_percent ==
    Tag("finish_percent", <<"f", "i", "n", "i", "s", "h", "_", "p", "e", "r", "c", "e", "n", "t">>)
Tag_is_completed ==
    Tag("is_completed", <<"i", "s", "_", "c", "o", "m", "p", "l", "e", "t", "e", "d">>)
Tag_analysis ==
    Tag("analysis", <<"a", "n", "a", "l", "y", "s", "i", "s">>)
Tag_suggestions ==
    Tag("suggestions", <<"s", "u", "g", "g", "e", "s", "t", "i", "o", "n", "s">>)
Tag_user_query ==
    Tag("user_query", <<"u", "s", "e", "r", "_", "q", "u", "e", "r", "y">>)
Tag_next_step_description ==
    Tag("next_step_description", <<"n", "e", "x", "t", "_", "s", "t", "e", "p", "_", "d", "e", "s", "c", "r", "i", "p", "t", "i", "o", "n">>)
Tag_required_tools ==
    Tag("required_tools", <<"r", "e", "q", "u", "i", "r", "e", "d", "_", "t", "o", "o", "l", "s">>)
Tag_expected_output ==
    Tag("expected_output", <<"e", "x", "p", "e", "c", "t", "e", "d", "_", "o", "u", "t", "p", "u", "t">>)
Tag_success_criteria ==
    Tag("success_criteria", <<"s", "u", "c", "c", "e", "s", "s", "_", "c", "r", "i", "t", "e", "r", "i", "a">>)
Tag_analysis_extra ==
    Tag("analysis_extra", <<"a", "n", "a", "l", "y", "s", "i", "s", "_", "e", "x", "t", "r", "a">>)

\* f"<{tag}>" and f"</{tag}>"
StartTag(t) == <<"<">> \o t.chars \o <<">">>
EndTag(t)   == <<"<", "/">> \o t.chars \o <<">">>

\* str.rfind as a position from 1, 0 for -1
RFind(text, sub) ==
    LET hits == { i \in 1..(Len(text) - Len(sub) + 1) :
                    SubSeq(text, i, i + Len(sub) - 1) = sub }
    IN  IF hits = {} THEN 0 ELSE CHOOSE i \in hits : \A j \in hits : j <= i

\* str.endswith
EndsWith(text, sub) ==
    /\ Len(sub) <= Len(text)
    /\ SubSeq(text, Len(text) - Len(sub) + 1, Len(text)) = sub

\* end_tag_process_list: every non-empty prefix of every closing delimiter
EndTagPrefixes(tags) ==
    UNION { {SubSeq(EndTag(t), 1, i) : i \in 1..Len(EndTag(t))} : t \in tags }

\* variant that also holds the prefixes of the opening delimiters
HeldPrefixes_WithStartTags(tags) ==
    EndTagPrefixes(tags)
    \cup UNION { {SubSeq(StartTag(t), 1, i) : i \in 1..Len(StartTag(t))} : t \in tags }

\* the prefixes that make the classifier hold its input
HeldPrefixes(tags) == EndTagPrefixes(tags)

\* _judge_delta_content_type
_judge_delta_content_type(delta_content, all_content_in, tags) ==
    LET all_tokens_str == Strip(all_content_in \o delta_content)
        found == { c \in [tag : tags, start : BOOLEAN] :
                     RFind(all_tokens_str,
                           IF c.start THEN StartTag(c.tag) ELSE EndTag(c.tag)) # 0 }
        At(c) == RFind(all_tokens_str,
                       IF c.start THEN StartTag(c.tag) ELSE EndTag(c.tag))
    IN  IF found = {} THEN "tag"
        ELSE LET last_tag == CHOOSE c \in found : \A d \in found : At(d) <= At(c)
             IN  IF ~last_tag.start THEN "tag"
                 ELSE IF At(last_tag) + Len(StartTag(last_tag.tag)) - 1
                            = Len(all_tokens_str)
                 THEN "tag"
                 ELSE IF \E p \in HeldPrefixes(tags) : EndsWith(all_tokens_str, p)
                 THEN "unknown"
                 ELSE last_tag.tag.name

\* the field vocabularies: the Observe stage, the Plan stage, and a pair of
\* names of which one is a prefix of the other
ObservationTagTypes ==
    [stage |-> "observation",
     tags  |-> {Tag_needs_more_input, Tag_finish_percent, Tag_is_completed,
                Tag_analysis, Tag_suggestions, Tag_user_query},
     shows |-> {"analysis"}]

PlanningTagTypes ==
    [stage |-> "planning",
     tags  |-> {Tag_next_step_description, Tag_required_tools, Tag_expected_output,
                Tag_success_criteria},
     shows |-> {"next_step_description", "expected_output"}]

PrefixTagTypes ==
    [stage |-> "prefix",
     tags  |-> {Tag_analysis, Tag_analysis_extra},
     shows |-> {"analysis", "analysis_extra"}]

\* the inner texts of a field block
InnerChars == {"x", "<", "/", " "}
Inners     == SeqsUpTo(InnerChars, MaxInner)

\* <X>inner</X>
Block(t, inner) == StartTag(t) \o inner \o EndTag(t)

\* the streams the model sends to a stage: well-formed blocks, a stream that
\* ends inside a block, and a block that is not closed before the next opens
Streams(types) ==
    CASE types.stage = "observation" ->
            { Block(Tag_analysis, inner) : inner \in Inners }
            \cup { StartTag(Tag_analysis) \o inner : inner \in Inners }
            \cup { Block(Tag_finish_percent, <<"5">>) \o <<"\n">>
                     \o Block(Tag_analysis, inner) : inner \in Inners }
      [] types.stage = "planning" ->
            { Block(Tag_next_step_description, <<"x">>) \o <<"\n">>
                  \o Block(Tag_required_tools, <<"[", "]">>) \o <<"\n">>
                  \o Block(Tag_expected_output, <<"x">>),
              StartTag(Tag_next_step_description) \o <<"x">>
                  \o Block(Tag_expected_output, <<"x">>) }
      [] types.stage = "prefix" ->
            { <<"<">> \o Tag_analysis.chars \o <<"_", "e">>,
              Block(Tag_analysis, <<"x">>) \o <<"<">> \o Tag_analysis.chars
                  \o <<"_", "e">>,
              StartTag(Tag_analysis) \o <<"x", "<">> \o Tag_analysis.chars
                  \o <<"_", "e">>,
              Block(Tag_analysis_extra, <<"x">>) }

\* one yielded chunk: the field, its show_content, and the position in the
\* stream of the last character of show_content (0: not from the stream)
Shown(type, text, last) == [type |-> type, text |-> text, last |-> last]

InitClassify ==
    /\ MergeIdle /\ RunIdle /\ BufferedIdle /\ ToolIdle /\ ExecIdle /\ McpIdle /\ TrimIdle /\ ViewIdle /\ DirectIdle /\ StreamIdle /\ RegisterIdle
    /\ tag_types \in {ObservationTagTypes, PlanningTagTypes, PrefixTagTypes}
    /\ delta_stream \in Streams(tag_types)
    /\ streamed = << >> /\ unknown_content = << >>
    /\ last_tag_type = "None" /\ tag_type = "None"
    /\ shown = << >>

\* the body of  for delta_content_char in delta_content
ClassifyChar ==
    /\ delta_stream # << >>
    /\ LET delta_content_char == Head(delta_stream)
           delta_content_all  == unknown_content \o <<delta_content_char>>
           t == _judge_delta_content_type(delta_content_all, streamed, tag_types.tags)
       IN  /\ streamed' = Append(streamed, delta_content_char)
           /\ tag_type' = t
           /\ IF t = "unknown"
              THEN /\ unknown_content' = delta_content_all
                   /\ UNCHANGED <<shown, last_tag_type>>
              ELSE /\ unknown_content' = << >>
                   /\ last_tag_type' = t
                   /\ shown' = IF t \in tag_types.shows
                               THEN shown
                                    \o (IF t # last_tag_type
                                        THEN <<Shown(t, <<"\\n\\n">>, 0)>> ELSE << >>)
                                    \o <<Shown(t, delta_content_all, Len(streamed) + 1)>>
                               ELSE shown
    /\ delta_stream' = Tail(delta_stream)
    /\ UNCHANGED tag_types
    /\ UNCHANGED nonClassifyVars

\* the stream has ended: the final chunk of the stage, with an empty
\* show_content; what the loop is holding stays where it is
FinalizeStream ==
    /\ delta_stream = << >>
    /\ tag_type # "final"
    /\ tag_type' = "final"
    /\ shown' = Append(shown, Shown("final",
                                    IF tag_types.stage = "observation"
                                    THEN <<"\\n">> ELSE << >>, 0))
    /\ UNCHANGED <<tag_types, delta_stream, streamed, unknown_content, last_tag_type>>
    /\ UNCHANGED nonClassifyVars

NextClassify == ClassifyChar \/ FinalizeStream

SpecClassify == InitClassify /\ [][NextClassify]_vars

(***************************************************************************)
(* Properties of _merge_messages (specification SpecMerge)                 *)
(***************************************************************************)
RECURSIVE Concat(_)
Concat(ss) == IF ss = << >> THEN << >> ELSE Head(ss) \o Concat(Tail(ss))

\* the fragments of F that carry the given id, in arrival order
RECURSIVE FragsWithId(_, _)
FragsWithId(frags, id) ==
    IF frags = << >> THEN << >>
    ELSE IF Head(frags).message_id = id
         THEN <<Head(frags)>> \o FragsWithId(Tail(frags), id)
         ELSE FragsWithId(Tail(frags), id)

ContentOf(frags) == Concat([k \in 1..Len(frags) |-> Get(frags[k].content)])
ShowOf(frags)    == Concat([k \in 1..Len(frags) |-> Get(frags[k].show_content)])

Targeted(i) == T[i].message_id # NoId /\ FragsWithId(F, T[i].message_id) # << >>

\* C6: every stored message is extended by the content and by the
\* show_content of the fragments that arrive with its id, stored text first.
C6_MergeConcatenates ==
    mphase = "merged" =>
        \A i \in 1..Len(T) :
            Targeted(i) =>
                /\ M[i].content = T[i].content \o ContentOf(FragsWithId(F, T[i].message_id))
                /\ M[i].show_content =
                       T[i].show_content \o ShowOf(FragsWithId(F, T[i].message_id))

C6_Witness ==
    /\ mphase = "merged"
    /\ \E i \in 1..Len(T) :
          /\ Targeted(i)
          /\ ContentOf(FragsWithId(F, T[i].message_id)) # << >>
          /\ M[i].show_content # T[i].show_content

\* the ids of T then F as they are first seen; a message without an id is
\* given its generated id on arrival
ArrivalIds ==
    LET in == T \o F
    IN  [i \in 1..Len(in) |->
            IF in[i].message_id = NoId
            THEN MergeUuid0 + Cardinality({j \in 1..(i - 1) : in[j].message_id = NoId})
            ELSE in[i].message_id]

RECURSIVE FirstSeen(_, _)
FirstSeen(ids, seen) ==
    IF ids = << >> THEN << >>
    ELSE IF Head(ids) \in seen
         THEN FirstSeen(Tail(ids), seen)
         ELSE <<Head(ids)>> \o FirstSeen(Tail(ids), seen \cup {Head(ids)})

\* C8: the ids of merge(T, F) are in insertion order of the first-seen ids
\* across T and then F; no message of T is moved or removed.
C8_MergeOrder ==
    mphase = "merged" =>
        /\ Ids(M) = FirstSeen(ArrivalIds, {})
        /\ Len(M) >= Len(T)
        /\ \A i \in 1..Len(T) :
              T[i].message_id # NoId => M[i].message_id = T[i].message_id

C8_Witness ==
    /\ mphase = "merged"
    /\ Len(T) = 2
    /\ Targeted(1)
    /\ Len(M) > Len(T)

\* C9: merging the same fragment twice concatenates its show_content twice
\* (after merge(merge(T, <<f>>), <<f>>) and after merge(T, <<f, f>>)).
StoredShow(id) ==
    IF MapIndex(T, id) = 0 THEN << >> ELSE T[MapIndex(T, id)].show_content

C9_MergeNotIdempotent ==
    /\ (mphase = "again" /\ Len(F) = 1 /\ F[1].message_id # NoId) =>
          /\ Len(M2) = Len(M)
          /\ M2[MapIndex(M2, F[1].message_id)].show_content =
                 StoredShow(F[1].message_id) \o F[1].show_content \o F[1].show_content
    /\ (mphase = "merged" /\ Len(F) = 2 /\ F[1] = F[2] /\ F[1].message_id # NoId) =>
          M[MapIndex(M, F[1].message_id)].show_content =
              StoredShow(F[1].message_id) \o F[1].show_content \o F[1].show_content

C9_Witness ==
    /\ mphase = "again"
    /\ Len(F) = 1
    /\ F[1].message_id # NoId
    /\ F[1].show_content # << >>
    /\ MapIndex(T, F[1].message_id) # 0
    /\ M2 # M

\* C10: a fragment with an existing id changes only content and show_content
\* of the one stored message with that id; the other fields of that message
\* and every other message stay as they were.
C10_MergeFrame ==
    mphase = "merged" =>
        \A i \in 1..Len(T) :
            /\ M[i].role = T[i].role
            /\ M[i].type = T[i].type
            /\ M[i].tool_calls = T[i].tool_calls
            /\ M[i].tool_call_id = T[i].tool_call_id
            /\ T[i].message_id # NoId => M[i].message_id = T[i].message_id
            /\ ~Targeted(i) =>
                  /\ M[i].content = T[i].content
                  /\ M[i].show_content = T[i].show_content

C10_Witness ==
    /\ mphase = "merged"
    /\ Len(T) = 2
    /\ Targeted(1)
    /\ ~Targeted(2)
    /\ \E k \in 1..Len(F) :
          /\ F[k].message_id = T[1].message_id
          /\ F[k].role # T[1].role
          /\ F[k].tool_call_id # T[1].tool_call_id
    /\ M[1] # T[1]

(***************************************************************************)
(* Properties of run_stream (specifications Spec and SpecLoop)             *)
(***************************************************************************)
Count(seq, x) == Cardinality({i \in 1..Len(seq) : seq[i] = x})

LoopStages == {"planning", "execution", "observation"}

\* this step calls a stage of the Plan-Execute-Observe loop
InvokesLoopStage ==
    /\ Len(invoked') > Len(invoked)
    /\ invoked'[Len(invoked')] \in LoopStages

RunEnded == pc = "done"

\* C1: a deep-research run in which no Observe result signals completion or
\* need of input ends without an error after max_loop_count + 1 passes of the
\* loop head, Plan, Execute and Observe having each run max_loop_count times.
C1_LoopBound ==
    (RunEnded /\ cfg.deep_research) =>
        /\ ~raised
        /\ exc = NoExc
        /\ loop_count = cfg.max_loop_count + 1
        /\ Count(completed, "planning") = cfg.max_loop_count
        /\ Count(completed, "execution") = cfg.max_loop_count
        /\ Count(completed, "observation") = cfg.max_loop_count

StageFailed == \E i \in 1..Len(yielded) : \E k \in 1..Len(yielded[i]) :
                   yielded[i][k].role = "tool"

\* Analyze, Decompose, (Plan, Execute, Observe)+, Summarize
WellOrdered(seq) ==
    /\ Len(seq) >= 6
    /\ (Len(seq) - 3) % 3 = 0
    /\ seq[1] = "analysis"
    /\ seq[2] = "decompose"
    /\ seq[Len(seq)] = "summary"
    /\ \A i \in 3..(Len(seq) - 1) :
          seq[i] = CASE (i - 3) % 3 = 0 -> "planning"
                     [] (i - 3) % 3 = 1 -> "execution"
                     [] OTHER           -> "observation"

\* C2: a deep-research run with analysis and summary in which no stage fails
\* ends having called and finished the stages in the order Analyze,
\* Decompose, one or more times Plan, Execute, Observe, then Summarize.
C2_StageOrder ==
    (/\ RunEnded /\ cfg.deep_research /\ cfg.deep_thinking /\ cfg.summary
     /\ cfg.max_loop_count >= 1 /\ ~StageFailed) =>
        /\ exc = NoExc
        /\ completed = invoked
        /\ WellOrdered(invoked)

\* the streamed texts whose is_completed field reads true in some letter
\* case and whose finalization succeeds
CompletedTexts ==
    { ObsText(out) : out \in { o \in ObsOutputs :
                                 /\ o.has_is_completed
                                 /\ o.is_completed \in TrueTexts
                                 /\ o.finish_percent = <<"5", "0">> } }

\* C3: when the Observe stage has streamed is_completed true in any letter
\* case, the completion check finds is_completed true and leaves the loop,
\* and from then on no Plan, Execute or Observe stage is called.
C3_CompletionHaltsLoop ==
    [][ /\ (pc = "check" /\ all_content \in CompletedTexts) =>
              (obs_check'.is_completed /\ obs_check'.should_break /\ pc' # "loop")
        /\ (obs_check.checked /\ obs_check.is_completed) => ~InvokesLoopStage ]_vars

C3_Witness ==
    /\ RunEnded
    /\ obs_check.is_completed
    /\ all_content \in CompletedTexts
    /\ \E o \in ObsOutputs :
          /\ o.is_completed = <<"\n", "T", "R", "U", "E", "\n">>
          /\ all_content = ObsText(o)
    /\ Count(invoked, "observation") = 1
    /\ Count(invoked, "planning") = 0

Clarified == obs_check.checked /\ obs_check.needs_more_input /\ ~obs_check.is_completed

Failed == exc # NoExc

CarriesError(chunk) ==
    \E k \in 1..Len(chunk) :
        /\ chunk[k].role = "assistant"
        /\ chunk[k].type = "final_answer"
        /\ \E t \in 1..Len(chunk[k].content) : chunk[k].content[t] = exc.text

\* C5: an exception that leaves a stage is caught by run_stream: the last
\* item the caller receives is the one assistant final_answer message with
\* the error text, run_stream does not raise, and no stage is called after
\* the failure.
C5_ErrorBoundary ==
    /\ [](Failed => ~raised)
    /\ []((Failed /\ RunEnded) =>
            /\ yielded # << >>
            /\ Len(yielded[Len(yielded)]) = 1
            /\ CarriesError(yielded[Len(yielded)])
            /\ Cardinality({i \in 1..Len(yielded) : CarriesError(yielded[i])}) = 1)
    /\ [][Failed => invoked' = invoked]_vars

C5_Witness ==
    /\ RunEnded
    /\ exc.class = "TypeError"
    /\ invoked[Len(invoked)] = "execution"
    /\ Len(yielded) > 1
    /\ CarriesError(yielded[Len(yielded)])

\* C7: after the caller's transcript has been prepared, no two records of
\* the running transcript share an id.
C7_UniqueIds ==
    pc \notin {"idle", "start"} => DistinctIds(all_messages)

\* the chunks the caller received from the stages: the chunk of
\* _handle_workflow_error, when there is one, is the last item
StageYields ==
    IF Failed /\ RunEnded /\ ~raised THEN SubSeq(yielded, 1, Len(yielded) - 1)
    ELSE yielded

\* C11: the caller receives the batches the stages produced, unmodified and
\* in the order of production, none dropped or repeated once the stage has
\* ended, and each batch is in the running transcript when it is received.
C11_BatchesInOrder ==
    /\ Len(StageYields) <= Len(produced)
    /\ StageYields = SubSeq(produced, 1, Len(StageYields))
    /\ pc # "streaming" => StageYields = produced
    /\ \A i \in 1..Len(StageYields) : \A k \in 1..Len(StageYields[i]) :
          \E j \in 1..Len(all_messages) :
              all_messages[j].message_id = StageYields[i][k].message_id

C11_Witness ==
    /\ RunEnded
    /\ completed = <<"analysis", "decompose", "planning">>
    /\ Len(produced) >= 6
    /\ \E i \in 1..Len(produced) :
          /\ produced[i][1].content # << >>
          /\ all_messages[MapIndex(all_messages, produced[i][1].message_id)].content
                 # produced[i][1].content

YieldedIds ==
    UNION { {yielded[i][k].message_id : k \in 1..Len(yielded[i])} : i \in 1..Len(yielded) }

PreparedIds == {prepared_messages[i].message_id : i \in 1..Len(prepared_messages)}

RECURSIVE Drain(_, _, _)
Drain(messages, batches, u) ==
    IF batches = << >> THEN messages
    ELSE LET merged == MergeMessages(messages, Head(batches), u)
         IN  Drain(merged.msgs, Tail(batches), merged.uuid)

Drained == Drain(prepared_messages, yielded, uuid)

SameText(a, b) ==
    /\ Len(a) = Len(b)
    /\ \A i \in 1..Len(a) :
          a[i].role = b[i].role /\ a[i].type = b[i].type /\ a[i].content = b[i].content

\* C13: run returns the transcript that draining run_stream on the same
\* input produces, having called the same stages in the same order, and the
\* last final_answer message of that transcript.
C13_BufferedEqualsDrained ==
    (rpc = "returned" /\ cfg.deep_research) =>
        /\ run_invoked = invoked
        /\ SameText(run_result.all_messages, Drained)

\* C14: run ends without an error after at most the iteration bound of
\* passes through its Plan-Execute-Observe loop.
C14_BufferedLoopBound ==
    rpc \in {"returned", "raised"} =>
        /\ rpc = "returned"
        /\ run_exc = NoExc
        /\ run_result.final_output # RunErrorMsg(run_exc)
        /\ Count(run_invoked, "planning") <= DEFAULT_MAX_LOOP_COUNT

(***************************************************************************)
(* Properties of ToolManager.run_tool (specification SpecTool)             *)
(***************************************************************************)
Called == tool_call # NoCall

ErrorKeys == {"error", "error_type", "message", "tool_name", "timestamp"}

IsErrorEnvelope(e) ==
    /\ ErrorKeys \subseteq e.keys
    /\ e.keys \subseteq ErrorKeys \cup {"exception_detail"}
    /\ e.error
    /\ e.error_type # "none"

IsContentEnvelope(e) == e.keys = {"content"} /\ e.content_type = "string"

IsMessagesEnvelope(e) == e.keys = {"messages"} /\ e.messages_type = "list"

Failures == {"unregistered", "rejected_arguments", "transport_failure", "capability_raises"}

\* C15: a call that fails (unregistered name, rejected arguments, transport
\* failure, capability raising) returns an error envelope naming the tool,
\* for each kind of capability, and run_tool does not raise.
C15_EnvelopeTotality ==
    /\ ~tool_raised
    /\ (Called /\ tool_call.failure \in Failures) =>
          /\ IsErrorEnvelope(tool_result)
          /\ tool_result.tool_name = tool_call.tool_name

C15_Witness ==
    /\ execution_stats.total_executions = 2
    /\ tool_call.kind = "McpToolSpec"
    /\ tool_call.failure = "transport_failure"
    /\ tool_result.error_type = "EXECUTION_ERROR"
    /\ execution_stats.failed_executions = 2

\* C16: a name that is not exactly a registered name gives a TOOL_NOT_FOUND
\* error envelope, and the call enters no capability.
C16_ExactNameMatch ==
    [][ \A n \in RequestNames :
          (tool_call'.tool_name = n /\ execution_stats' # execution_stats
           /\ n \notin DOMAIN tools) =>
              /\ IsErrorEnvelope(tool_result')
              /\ tool_result'.error_type = "TOOL_NOT_FOUND"
              /\ executed' = executed ]_vars

C16_Witness ==
    /\ "calc" \in DOMAIN tools
    /\ tool_call.tool_name = "Calc"
    /\ tool_result.error_type = "TOOL_NOT_FOUND"
    /\ executed = <<"calc">>

\* C17: every envelope run_tool returns is a content envelope with a string
\* content, a messages envelope with a list, or an error envelope.
C17_EnvelopeShapes ==
    Called =>
        \/ IsContentEnvelope(tool_result)
        \/ IsMessagesEnvelope(tool_result)
        \/ IsErrorEnvelope(tool_result)

(***************************************************************************)
(* Properties of the Execute stage (specification SpecExec)                *)
(***************************************************************************)
\* the for loop of _execute_tool_calls has ended
ToolLoopEnded == epc = "done" /\ requested # << >>

\* a visited call failed
ToolCallFailed == \E i \in 1..Len(handled) : handled[i].outcome = "error"

\* the controller is inside the Execute phase
InExecute == pc = "streaming" /\ stage = "execution"

\* C18: a capability call that fails during an Execute step does not abort
\* the run: the loop visits every requested call, the Execute phase is left
\* only towards the call of Observe, and an exception is on its way only
\* after Observe has run to its end and a later stage was called.
C18_FailureDoesNotAbort ==
    /\ [](ToolLoopEnded =>
            [i \in 1..Len(handled) |-> handled[i].id]
                = [i \in 1..Len(requested) |-> requested[i].id])
    /\ []((ToolCallFailed /\ (exc # NoExc \/ raised)) =>
            /\ Count(completed, "observation") = 1
            /\ invoked[Len(invoked)] \in {"execution", "summary"}
            /\ Len(invoked) >= 3)
    /\ [][(InExecute /\ ToolCallFailed) =>
            \/ pc' = "streaming" /\ stage' = "execution"
            \/ pc' = "call" /\ stage' = "observation"]_vars

C18_Witness ==
    /\ \E i \in 1..Len(handled) :
         /\ handled[i].outcome = "error"
         /\ i < Len(handled)
         /\ handled[i + 1].outcome = "result"
    /\ Count(invoked, "observation") = 1
    /\ Count(invoked, "planning") = 1
    /\ exc = NoExc

\* the transcript holds a tool-role message that carries the id of the call
Answered(c) ==
    \E k \in 1..Len(all_messages) :
        /\ all_messages[k].role = "tool"
        /\ all_messages[k].tool_call_id = c.id

\* C19: when the Execute phase has returned, every tool call the model
\* requested has a tool-role message in the transcript that carries its
\* tool_call_id.
C19_EveryCallAnswered ==
    (Count(completed, "execution") = 1) =>
        \A i \in 1..Len(requested) : Answered(requested[i])

\* the Execute stage could not parse the plan of the transcript it was given
ParseFailed == _parse_subtask_info(prepared_messages) # "ok"

\* the chunk is one error message of the Execute stage
IsExecuteError(chunk) ==
    /\ Len(chunk) = 1
    /\ chunk[1].role = "tool"
    /\ chunk[1].type = "do_subtask_result"
    /\ chunk[1].content = chunk[1].show_content
    /\ chunk[1].content # NoKey

\* C20: when the Execute stage cannot parse the plan, the stage produces
\* exactly one chunk, a single error message, and dispatches no tool call;
\* the Execute phase is left only towards the call of Observe, and an
\* exception is on its way only after Observe has run to its end and a
\* later stage was called.
C20_ParseFailureIsOneMessage ==
    /\ []((ParseFailed /\ epc # "start" /\ Len(invoked) = 1) =>
            /\ Len(produced) = 1
            /\ IsExecuteError(produced[1])
            /\ epc = "done"
            /\ requested = << >> /\ handled = << >>
            /\ execution_stats = NoStats
            /\ exc = NoExc /\ ~raised)
    /\ []((ParseFailed /\ (exc # NoExc \/ raised)) =>
            /\ Count(completed, "observation") = 1
            /\ invoked[Len(invoked)] \in {"execution", "summary"}
            /\ Len(invoked) >= 3)
    /\ [][(InExecute /\ ParseFailed) =>
            \/ pc' = "streaming" /\ stage' = "execution"
            \/ pc' = "call" /\ stage' = "observation"]_vars

C20_Witness ==
    /\ ParseFailed
    /\ Len(produced) >= 1 /\ IsExecuteError(produced[1])
    /\ Len(yielded) >= 1 /\ yielded[1] = produced[1]
    /\ Len(completed) >= 1 /\ completed[1] = "execution"
    /\ Count(invoked, "observation") = 1
    /\ Count(invoked, "planning") = 1
    /\ loop_count = 2

\* the messages the Plan stage of this iteration left: the planning_result
\* messages that end the transcript the Execute stage is given
RECURSIVE PlanOfIteration(_)
PlanOfIteration(messages) ==
    IF messages = << >> \/ messages[Len(messages)].type # "planning_result"
    THEN {}
    ELSE {Len(messages)} \cup PlanOfIteration(SubSeq(messages, 1, Len(messages) - 1))

\* the Execute stage has sent the request for the step it parsed
StepConsumed == epc \notin {"idle", "start"} /\ ~ParseFailed

\* C21: the step the Execute stage consumes is one the Plan stage of the
\* same iteration created, also when that Plan stage ended in an error.
C21_StepOfSameIteration ==
    StepConsumed =>
        _get_last_sub_task(prepared_messages) \in PlanOfIteration(prepared_messages)

\* the chunks of the tool loop the caller has received, in order
ToolChunks ==
    SelectSeq(yielded, LAMBDA chunk :
        chunk # << >> /\ chunk[1].type \in {"tool_call", "tool_call_result",
                                            "nested_result"})

\* the visited calls that were announced
Announced == SelectSeq(handled, LAMBDA h : h.outcome # "skipped")

\* the requested call with the given id
Request(id) == CHOOSE c \in {requested[i] : i \in 1..Len(requested)} : c.id = id

IsAnnouncement(chunk, c) ==
    /\ Len(chunk) = 1
    /\ chunk[1].role = "assistant" /\ chunk[1].type = "tool_call"
    /\ \/ chunk[1].tool_calls = c.id
       \/ chunk[1].content = <<"handed over to ", c.name>>

IsResult(chunk, c) ==
    /\ Len(chunk) = 1
    /\ \/ chunk[1].role = "tool" /\ chunk[1].type = "tool_call_result"
                                 /\ chunk[1].tool_call_id = c.id
       \/ chunk[1].type = "nested_result" /\ get_tool(tools, c.name) = "AgentToolSpec"

\* C22: the calls of one Execute step are visited in the order of the
\* response, one at a time: the caller receives, for each announced call in
\* turn, its tool-call message and then its result, and a call is visited
\* only when the result of the call before it has been received.
C22_SequentialToolCalls ==
    /\ [i \in 1..Len(handled) |-> handled[i].id]
          = [i \in 1..Len(handled) |-> requested[i].id]
    /\ Len(ToolChunks) <= 2 * Len(Announced)
    /\ Len(ToolChunks) >= 2 * (Len(Announced) - 1)
    /\ \A k \in 1..Len(ToolChunks) :
          IF k % 2 = 1
          THEN IsAnnouncement(ToolChunks[k], Request(Announced[(k + 1) \div 2].id))
          ELSE IsResult(ToolChunks[k], Request(Announced[k \div 2].id))

C22_Witness ==
    /\ Len(Announced) = 2
    /\ Len(ToolChunks) = 4
    /\ ToolChunks[2][1].tool_call_id = "call_1"
    /\ ToolChunks[4][1].tool_call_id = "call_2"

(***************************************************************************)
(* Properties of the classifier (specification SpecClassify)               *)
(***************************************************************************)
\* the stream has ended and the stage has sent its final chunk
StreamEnded == delta_stream = << >> /\ tag_type = "final"

\* the characters of the stream the loop has yielded as field X, in order
RECURSIVE ShownTextOf(_, _)
ShownTextOf(chunks, X) ==
    IF chunks = << >> THEN << >>
    ELSE (IF Head(chunks).type = X /\ Head(chunks).last # 0
          THEN Head(chunks).text ELSE << >>) \o ShownTextOf(Tail(chunks), X)

\* C23: when the stream was one well-formed block of the field analysis,
\* the characters yielded as analysis are the inner text of the block, up
\* to surrounding white space.
C23_ClassifierRoundTrip ==
    \A inner \in Inners :
        (StreamEnded /\ streamed = Block(Tag_analysis, inner)) =>
            Strip(ShownTextOf(shown, "analysis")) = Strip(inner)

\* <analysis_e: a proper prefix of the opening delimiter <analysis_extra>
PartialDelimiter == <<"<">> \o Tag_analysis.chars \o <<"_", "e">>

\* C24: with the field names analysis and analysis_extra, a streamed text
\* that ends in <analysis_e is held: the classifier answers unknown, not
\* the field analysis.
C24_PartialDelimiterHeld ==
    (tag_types = PrefixTagTypes /\ EndsWith(streamed, PartialDelimiter)) =>
        tag_type = "unknown"

\* the positions of the stream that belong to an opening or closing
\* delimiter of the vocabulary
DelimiterPositions ==
    UNION { UNION { i..(i + Len(d) - 1) :
                      i \in { j \in 1..(Len(streamed) - Len(d) + 1) :
                                SubSeq(streamed, j, j + Len(d) - 1) = d } } :
            d \in {StartTag(t) : t \in tag_types.tags}
                  \cup {EndTag(t) : t \in tag_types.tags} }

\* the positions of the stream whose characters were yielded in show_content
ShownPositions ==
    UNION { (shown[k].last - Len(shown[k].text) + 1)..shown[k].last :
            k \in { n \in 1..Len(shown) : shown[n].last # 0 } }

\* C25: no character of an opening or closing delimiter of the stage's
\* vocabulary is yielded in show_content by the Observe or the Plan stage.
C25_DelimitersSuppressed ==
    tag_types.stage \in {"observation", "planning"} =>
        ShownPositions \cap DelimiterPositions = {}

\* the loop was holding characters when the stream ended
HeldAtEnd == StreamEnded /\ unknown_content # << >>

\* C26: when the stream ends while the loop is holding characters, the held
\* characters are yielded as content of the last known field.
C26_HeldBufferFlushed ==
    HeldAtEnd =>
        \E k \in 1..Len(shown) :
            /\ shown[k].type = last_tag_type
            /\ shown[k].last = Len(streamed)
            /\ EndsWith(shown[k].text, unknown_content)

(***************************************************************************)
(* Properties of cleanup_session (specification SpecCleanup)               *)
(***************************************************************************)
\* the calls of close() made for a session_id, as server names in order
ClosedServers(session_id) ==
    LET mine == SelectSeq(close_calls, LAMBDA c : c.session_id = session_id)
    IN  [i \in 1..Len(mine) |-> mine[i].server_name]

\* the close() calls a session's connections call for, in dict order
AllCloses(session_id) ==
    [i \in 1..Len(mcp_sessions[session_id]) |->
       [session_id  |-> session_id,
        server_name |-> mcp_sessions[session_id][i].server_name,
        outcome     |-> mcp_sessions[session_id][i].close]]

\* C27: cleanup_session of a session that has an entry calls close() on
\* every connection kept for it, whether or not an earlier close failed,
\* and removes the entry: no close() is attempted without the entry being
\* removed in the same call, the other sessions' entries are untouched and
\* no exception leaves the call.
C27_CleanupClosesAll ==
    [][/\ \A session_id \in DOMAIN mcp_sessions :
             session_id \notin DOMAIN mcp_sessions' =>
                /\ close_calls' = close_calls \o AllCloses(session_id)
                /\ DOMAIN mcp_sessions' = (DOMAIN mcp_sessions) \ {session_id}
                /\ \A k \in DOMAIN mcp_sessions' : mcp_sessions'[k] = mcp_sessions[k]
       /\ close_calls' # close_calls => DOMAIN mcp_sessions' # DOMAIN mcp_sessions
       /\ ~tool_raised']_vars

C27_Witness ==
    /\ "s1" \notin DOMAIN mcp_sessions
    /\ Len(close_calls) = 2
    /\ close_calls[1].session_id = "s1" /\ close_calls[1].outcome = "raises"
    /\ close_calls[2].session_id = "s1" /\ close_calls[2].outcome = "returns"
    /\ "s2" \in DOMAIN mcp_sessions

(***************************************************************************)
(* Properties of the MCP calls (specification SpecMcp)                     *)
(***************************************************************************)
\* connection c was asked one of ops, with the given outcome, before its
\* i-th request
AskedBefore(c, i, ops, ok) ==
    \E j \in 1..(i - 1) : wire[c][j].op \in ops /\ wire[c][j].ok = ok

\* C28: every call_tool is issued on a connection that was opened by the
\* client of its transport, on which initialize has completed, and which
\* has not been closed; this holds for sse and for stdio connections.
C28_CallAfterInitialize ==
    \A c \in 1..Len(wire) : \A i \in 1..Len(wire[c]) :
       wire[c][i].op = "call_tool" =>
          /\ AskedBefore(c, i, {IF mcp_calls[c].transport = "sse"
                                THEN "sse_client" ELSE "stdio_client"}, TRUE)
          /\ AskedBefore(c, i, {"ClientSession"}, TRUE)
          /\ AskedBefore(c, i, {"initialize"}, TRUE)
          /\ ~AskedBefore(c, i, {"close"}, TRUE)

\* two calls in flight, one per transport: the first has called its tool
\* and the second, not yet initialized, calls its own tool later
CalledTool(c) == \E i \in 1..Len(wire[c]) : wire[c][i].op = "call_tool"

C28_Witness ==
    /\ Len(mcp_calls) = 2
    /\ mcp_calls[1].transport = "sse" /\ mcp_calls[2].transport = "stdio"
    /\ CalledTool(1) /\ mcp_calls[1].status = "returned"
    /\ CalledTool(2) /\ mcp_calls[2].status = "exit_raising"

(***************************************************************************)
(* Properties of the choice of the workflow (specification Spec)           *)
(***************************************************************************)
FullStages == {"analysis", "decompose", "planning", "execution", "observation",
               "summary"}

\* C29: with deep_research disabled the only stage ever invoked is
\* Direct-Execute, it is invoked once, and once it has returned the run does
\* nothing but end; with deep_research enabled Direct-Execute is never
\* invoked.
C29_ExclusivePaths ==
    /\ ~cfg.deep_research =>
          /\ \A i \in 1..Len(invoked) : invoked[i] \notin FullStages
          /\ Len(invoked) <= 1
          /\ Count(completed, "direct") = Len(completed)
          /\ completed # << >> => pc \in {"return", "done"}
          /\ RunEnded => invoked = <<"direct">>
    /\ cfg.deep_research =>
          /\ Count(invoked, "direct") = 0
          /\ Count(completed, "direct") = 0

C29_Witness ==
    /\ RunEnded /\ ~cfg.deep_research
    /\ invoked = <<"direct">> /\ completed = <<"direct">>
    /\ yielded # << >> /\ ~raised /\ exc = NoExc

(***************************************************************************)
(* Properties of _trim_message_history (specification SpecTrim)            *)
(***************************************************************************)
Survives(k) == \E i \in 1..Len(history) : history[i].message_id = k
UserOrFinalAnswer(msg) == msg.role = "user" \/ msg.type = "final_answer"
WithinBudget(msgs) == SerializedLen(msgs) <= DEFAULT_MESSAGE_LIMIT

LastUser(messages) ==
    LET users == { i \in 1..Len(messages) : messages[i].role = "user" }
    IN  IF users = {} THEN 0 ELSE CHOOSE i \in users : \A j \in users : j <= i

\* C31: for messages that hold a user message, the task description is the
\* messages strictly before the last user message whose type is normal or
\* final_answer, and the completed actions are the messages from the last
\* user message onward whose type is not task_decomposition.
C31_FilteredViews ==
    LastUser(view_messages) # 0 =>
       /\ "task_description" \in extracted =>
             task_description_messages =
                SelectSeq(SubSeq(view_messages, 1, LastUser(view_messages) - 1),
                          LAMBDA msg : msg.type \in {"normal", "final_answer"})
       /\ "completed_actions" \in extracted =>
             completed_actions_messages =
                SelectSeq(SubSeq(view_messages, LastUser(view_messages),
                                 Len(view_messages)),
                          LAMBDA msg : msg.type # "task_decomposition")

(***************************************************************************)
(* Properties of the ownership of the transcript (specification SpecLoop)  *)
(***************************************************************************)
\* this step calls a stage
InvokesStage == Len(invoked') > Len(invoked)

\* this step merges the next chunk of the running stage into the transcript
MergesChunk ==
    /\ pc = "streaming" /\ script # << >>
    /\ all_messages' = MergeMessages(all_messages, Head(script), uuid).msgs

\* this step is the controller appending its clarification message
AppendsClarification ==
    /\ pc = "check"
    /\ Len(all_messages') = Len(all_messages) + 1
    /\ SubSeq(all_messages', 1, Len(all_messages)) = all_messages
    /\ all_messages'[Len(all_messages')].type = "final_answer"

\* this step is run_stream building the transcript from the caller's input
PreparesTranscript == pc = "start" /\ all_messages = << >>

\* the records that were there are still there, at their positions, under
\* their ids, roles and types
RecordsKept ==
    /\ Len(all_messages') >= Len(all_messages)
    /\ \A i \in 1..Len(all_messages) :
          /\ all_messages'[i].message_id \in {all_messages[i].message_id, uuid}
          /\ all_messages'[i].role = all_messages[i].role
          /\ all_messages'[i].type = all_messages[i].type

LastUnparsable ==
    \/ all_messages = << >>
    \/ ~JsonLoads(Remove(all_messages[Len(all_messages)].content, "Observation: ")).ok

\* the Observe stage ended in its error message
ObserveEndedInError ==
    /\ all_messages # << >>
    /\ all_messages[Len(all_messages)].role = "tool"
    /\ all_messages[Len(all_messages)].type = "observation_result"

\* C33: when the last message after Observe does not parse as an
\* observation result, and in particular when Observe ended in its error
\* message, the check reports the iteration as not completed, changes
\* nothing in the transcript and raises nothing; the loop head that follows
\* starts the next Plan if loop_count is still below max_loop_count and
\* otherwise leaves the loop.
C33_UnparsableObservationContinues ==
    /\ [](ObserveEndedInError => LastUnparsable)
    /\ [][(pc = "check" /\ LastUnparsable) =>
             /\ pc' = "loop"
             /\ ~obs_check'.should_break /\ ~obs_check'.is_completed
             /\ all_messages' = all_messages
             /\ exc' = NoExc /\ ~raised']_vars
    /\ [][(pc = "loop" /\ obs_check.checked /\ ~obs_check.parsed) =>
             IF loop_count < cfg.max_loop_count
             THEN pc' = "call" /\ stage' = "planning" /\ exc' = NoExc
             ELSE pc' = AfterLoopPc /\ stage' = AfterLoopStage]_vars

\* Observe ended in its error message and the next Plan was called
C33_Witness ==
    /\ obs_check.checked /\ ~obs_check.parsed
    /\ Len(invoked) >= 2 /\ invoked[1] = "observation" /\ invoked[2] = "planning"
    /\ \E i \in 1..Len(all_messages) :
          all_messages[i].role = "tool" /\ all_messages[i].type = "observation_result"

(***************************************************************************)
(* Properties of an Observe result that reports completion and need of     *)
(* input at once (SpecLoop)                                                *)
(***************************************************************************)
\* the Observe stage streamed is_completed true and needs_more_input true
CompletedAndAskingTexts ==
    { ObsText(out) : out \in { o \in ObsOutputs :
                                 /\ o.has_is_completed
                                 /\ o.is_completed \in TrueTexts
                                 /\ o.needs_more_input = <<"T", "r", "u", "e">>
                                 /\ o.finish_percent = <<"5", "0">> } }

\* C34: when the Observe result reports completion and need of input at
\* once, the check finds both, leaves the loop and leaves the transcript as
\* it is (no clarification message), and no Plan, Execute or Observe stage is
\* called afterwards.
C34_CompletionBeforeClarification ==
    [][/\ (pc = "check" /\ all_content \in CompletedAndAskingTexts) =>
             /\ obs_check'.is_completed /\ obs_check'.needs_more_input
             /\ obs_check'.should_break
             /\ pc' = AfterLoopPc /\ stage' = AfterLoopStage
             /\ all_messages' = all_messages
             /\ uuid' = uuid
       /\ (obs_check.checked /\ obs_check.is_completed /\ obs_check.needs_more_input) =>
             /\ ~InvokesLoopStage
             /\ \A i \in 1..Len(all_messages') :
                   (all_messages'[i].type = "final_answer" /\ all_messages'[i].role = "assistant")
                      => all_messages'[i].content # <<"w", "h", "o", "?">>]_vars

C34_Witness ==
    /\ RunEnded
    /\ all_content \in CompletedAndAskingTexts
    /\ obs_check.checked /\ obs_check.is_completed /\ obs_check.needs_more_input
    /\ \E o \in ObsOutputs : o.user_query = <<"w", "h", "o", "?">> /\ all_content = ObsText(o)
    /\ invoked[1] = "observation" /\ Count(invoked, "planning") = 0

(***************************************************************************)
(* Properties of the Direct-Execute stage (specification SpecDirect)       *)
(***************************************************************************)
CallsFor(purpose) ==
    Cardinality({ i \in 1..Len(llm_calls) : llm_calls[i].purpose = purpose })

\* C35 as stated: one run of the stage never issues more than
\* MAX_LOOP_COUNT calls of the completion service.
C35_AtMostTenCalls == Len(llm_calls) <= MAX_LOOP_COUNT

\* C35 amended: the stage always terminates; its loop issues at most
\* MAX_LOOP_COUNT calls of the completion service, and the whole run at most
\* one more, the tool-suggestion call made before the loop.
C35_DirectTerminates ==
    /\ [](/\ CallsFor("direct_execution") <= MAX_LOOP_COUNT
          /\ CallsFor("tool_suggestion") <= 1
          /\ Len(llm_calls) <= MAX_LOOP_COUNT + 1
          /\ \A i \in 2..Len(llm_calls) : llm_calls[i].purpose = "direct_execution")
    /\ <>(direct_pc = "done")

\* the completion service answers every call with text: the loop runs to its
\* limit after the tool-suggestion call
C35_Witness ==
    /\ direct_pc = "done"
    /\ Len(llm_calls) = MAX_LOOP_COUNT + 1
    /\ llm_calls[1].purpose = "tool_suggestion"
    /\ \A i \in 2..Len(llm_calls) : llm_calls[i].returns = "text"
    /\ direct_loop_count = MAX_LOOP_COUNT + 1

(***************************************************************************)
(* Properties of ToolManager.execution_stats (specification SpecTool)      *)
(***************************************************************************)
RECURSIVE SumOver(_, _)
SumOver(counters, keys) ==
    IF keys = {} THEN 0
    ELSE LET k == CHOOSE x \in keys : TRUE
         IN  counters[k] + SumOver(counters, keys \ {k})

\* C36: total_executions is the number of calls of run_tool made and is
\* successful_executions + failed_executions, and the counters of
\* error_types add up to failed_executions.
C36_EveryCallCountedOnce ==
    /\ execution_stats.total_executions = tool_call.number
    /\ execution_stats.total_executions =
          execution_stats.successful_executions + execution_stats.failed_executions
    /\ SumOver(execution_stats.error_types, DOMAIN execution_stats.error_types) =
          execution_stats.failed_executions

\* a call for an unregistered name and a call whose capability raised
C36_Witness ==
    /\ tool_call.number = 2
    /\ execution_stats.failed_executions = 2
    /\ DOMAIN execution_stats.error_types = {"TOOL_NOT_FOUND", "EXECUTION_ERROR"}

(***************************************************************************)
(* Properties of the connections of remote calls (specification SpecMcp)   *)
(***************************************************************************)
\* connection c was opened by the client of a transport
Opened(c) == \E i \in 1..Len(wire[c]) : wire[c][i].op \in OpenOps /\ wire[c][i].ok

\* connection c was closed after it was opened
ClosedAfterOpen(c) ==
    \E i, j \in 1..Len(wire[c]) :
        /\ i < j
        /\ wire[c][i].op \in OpenOps /\ wire[c][i].ok
        /\ wire[c][j].op = "close"

\* C37: a remote call that has returned or raised has closed the connection
\* it opened, the entries of _mcp_sessions hold no connection, and
\* cleanup_session finds none to close.
C37_NoConnectionLeftOpen ==
    /\ \A c \in 1..Len(mcp_calls) :
          (mcp_calls[c].status \in {"returned", "raised"} /\ Opened(c)) =>
              ClosedAfterOpen(c)
    /\ \A k \in DOMAIN mcp_sessions : mcp_sessions[k] = << >>
    /\ close_calls = << >>

\* a call that returned and a call that failed after its connection was
\* opened, both finished, and the entry of the session cleaned up
C37_Witness ==
    /\ Len(mcp_calls) = 2
    /\ mcp_calls[1].status = "returned" /\ Opened(1)
    /\ mcp_calls[2].status = "raised" /\ Opened(2)
    /\ mcp_calls[2].session_id = "s1"
    /\ "s1" \notin DOMAIN mcp_sessions

(***************************************************************************)
(* Properties of the accumulation of tool-call fragments (specification    *)
(* SpecStream)                                                             *)
(***************************************************************************)
\* the tool-call fragments of a sequence of deltas, in arrival order
RECURSIVE FragmentsOf(_)
FragmentsOf(deltas) ==
    IF deltas = << >> THEN << >>
    ELSE Head(deltas).tool_calls \o FragmentsOf(Tail(deltas))

\* the id the n-th fragment is attributed to: its own, or the id most
\* recently seen before it
AttributedId(frags, n) ==
    LET with_id == { m \in 1..n : frags[m].id # "None" }
    IN  IF with_id = {} THEN "None"
        ELSE frags[CHOOSE m \in with_id : \A k \in with_id : k <= m].id

\* the argument pieces of the first n fragments that are attributed to id
RECURSIVE PiecesFor(_, _, _)
PiecesFor(frags, id, n) ==
    IF n = 0 THEN << >>
    ELSE PiecesFor(frags, id, n - 1)
         \o (IF AttributedId(frags, n) = id /\ frags[n].arguments \notin {"None", ""}
             THEN <<frags[n].arguments>> ELSE << >>)

AccumulatedFrom(deltas) ==
    spc = "execute" =>
        \A i \in 1..Len(stream_tool_calls) :
            stream_tool_calls[i].id \in ToolCallIds =>
                stream_tool_calls[i].arguments =
                    PiecesFor(FragmentsOf(deltas), stream_tool_calls[i].id,
                              Len(FragmentsOf(deltas)))

\* C38: the arguments text handed to _execute_tool_calls for a call id is
\* the concatenation, in arrival order, of the argument fragments of the
\* response that are attributed to the id.
C38_AccumulatedById == AccumulatedFrom(stream_response)

\* the same of the fragments the loop has taken from the response
AccumulatedFromConsumed == AccumulatedFrom(SubSeq(stream_response, 1, consumed))

(***************************************************************************)
(* Properties of ToolManager.register_tool (specification SpecTool)        *)
(***************************************************************************)
\* C39: a call of register_tool for a name that is registered returns False
\* and leaves the registry as it is, a call for a new name returns True and
\* makes the name resolve to the given capability, and a registered name
\* resolves to the same capability ever after.
C39_FirstRegistrationWins ==
    [][ /\ \A n \in DOMAIN tools :
              n \in DOMAIN tools' /\ get_tool(tools', n) = get_tool(tools, n)
        /\ register_call' # register_call =>
              IF register_call'.name \in DOMAIN tools
              THEN ~register_call'.returned /\ tools' = tools
              ELSE /\ register_call'.returned
                   /\ get_tool(tools', register_call'.name) = register_call'.kind
                   /\ DOMAIN tools' = (DOMAIN tools) \cup {register_call'.name} ]_vars

\* calc was registered as a local capability, and its registration as a
\* remote one was refused
C39_Witness ==
    /\ get_tool(tools, "calc") = "ToolSpec"
    /\ register_call = [name |-> "calc", kind |-> "McpToolSpec", returned |-> FALSE]
    /\ tool_call.number = 1 /\ tool_call.tool_name = "calc" /\ tool_call.kind = "ToolSpec"

====
